---- MODULE Spec2Model ----
(***************************************************************************)
(* Masked sparse matrix-matrix multiply C=A*B, C<M>=A*B, C<!M>=A*B of      *)
(* SuiteSparse:GraphBLAS (GB_AxB_saxpy3): flop estimate, mask-cost         *)
(* decision, coarse/fine task partitioner, hash sizer, workspace           *)
(* allocator, symbolic and numeric phases, kernel dispatch, error paths.   *)
(* Arrays are 0-based in the source; At(s, i) reads the i-th element.      *)
(* Doubles (target_task_size, GB_COSTLY, ...) are exact rationals here:    *)
(* every comparison is cross-multiplied into integers.                     *)
(* The MKL tier (lines 332-360) is under #if GB_HAS_MKL_GRAPH, which the   *)
(* sources never define: it is compiled out and not modelled.              *)
(***************************************************************************)
EXTENDS Integers, Sequences, FiniteSets, TLC

\* ---------------------------------------------------------------- bounds
MaxThreads == 2          \* nthreads_max ranges over 1..MaxThreads
MaxVectors == 8          \* vectors of B handed to the partitioner alone
MaxEntries == 5          \* entries of B handed to the partitioner alone
MaxFlmax == 40           \* flop bounds handed to the hash sizer alone
MaxReduce == 3           \* entries handed to a reduction alone
MaxSlots == 3            \* bvlen of the vector B(:,j) that is sliced alone
MaxTeam == 3             \* team sizes tried when B(:,j) is sliced alone

\* ------------------------------------------------------ control parameters
GB_NTASKS_PER_THREAD == 2
GB_FINE_WORK == 2
GB_COSTLY == <<12, 10>>          \* 1.2
GB_MWORK_ALPHA == <<1, 100>>     \* 0.01
GB_MWORK_BETA == <<10, 100>>     \* 0.10
hx_pad == 64
hi_pad == 8                      \* 64 / sizeof (int64_t)
sizeof_int64 == 8

\* --------------------------------------------------------------- helpers
At(s, i) == s[i + 1]
GB_IMAX(x, y) == IF x > y THEN x ELSE y
GB_IMIN(x, y) == IF x < y THEN x ELSE y
GB_ICEIL(a, b) == (a + b - 1) \div b

RECURSIVE SetToSeq(_)
\* the elements of a set of integers in ascending order (by halving)
SetToSeq(S) ==
    IF S = {} THEN << >>
    ELSE LET lo == CHOOSE x \in S : \A y \in S : x <= y
             hi == CHOOSE x \in S : \A y \in S : x >= y
             mid == (lo + hi) \div 2
         IN  IF lo = hi THEN <<lo>>
             ELSE SetToSeq({x \in S : x <= mid}) \o SetToSeq({x \in S : x > mid})

RECURSIVE SumSeq(_)
SumSeq(s) == IF s = << >> THEN 0 ELSE Head(s) + SumSeq(Tail(s))

RECURSIVE FloorLog2(_)
\* floor (log2 ((double) x)) for an integer x >= 1 small enough that the
\* conversion to double and log2 are exact
FloorLog2(x) == IF x <= 1 THEN 0 ELSE 1 + FloorLog2(x \div 2)

RECURSIVE Pow2(_)
Pow2(n) == IF n <= 0 THEN 1 ELSE 2 * Pow2(n - 1)

\* ---------------------------------------------------------------- inputs
\* A is avlen-by-2, B is 2-by-bvdim, both sparse (CSC); M is avlen-by-bvdim.
VlenSet == {9, 200}
InnerSet == {0, 1}
AColPool == {{}, {4}, {0, 4, 8}}
BColPool == {{}, {0}, {0, 1}}
BvdimSet == {1, 2}
MethodSet == {"GxB_DEFAULT", "GxB_AxB_GUSTAVSON", "GxB_AxB_HASH"}
SemiringSet == {"PLUS_TIMES", "ANY_PAIR", "USER_PLUS_TIMES"}
ChunkSet == {1}
\* the masks of a given vector length: none, a sparse mask with a present
\* zero, a large sparse mask (101 entries per vector), a dense mask
MaskKinds(vlen) == IF vlen < 150 THEN {"none", "sparse", "dense"}
                   ELSE {"none", "big"}

Aval(i, k) == 1 + (i \div 4) + 3 * k
Bval(k, j) == 1 + k + 2 * j

\* rows of M(:,j) that hold an entry
MRows(in, j) ==
    CASE in.Mkind = "sparse" -> IF j = 0 THEN {0, 4} ELSE {0, 8}
      [] in.Mkind = "big"    -> 0 .. 100
      [] in.Mkind = "dense"  -> 0 .. (in.avlen - 1)
      [] OTHER               -> {}
\* value of the entry M(i,j)
Mval(in, i, j) ==
    CASE in.Mkind = "sparse" -> IF (i = 0 /\ j = 0) \/ (i = 8 /\ j = 1) THEN 1 ELSE 0
      [] in.Mkind = "big"    -> IF i = 8 THEN 0 ELSE 1
      [] in.Mkind = "dense"  -> IF i = 4 THEN 0 ELSE 1
      [] OTHER               -> 0

\* The matrices and the complement flag are drawn when the call starts; every
\* other parameter of the call is drawn by the step that first reads it and
\* is "unread" until then.
Inputs ==
    { [avlen |-> v, A |-> a, bvdim |-> n, B |-> b, Mkind |-> mk,
       Mask_comp |-> mc, Mask_struct |-> "unread", AxB_method |-> "unread",
       nthreads_max |-> 0, chunk |-> 0, semiring |-> "unread",
       GBCOMPACT |-> "unread"] :
        v \in VlenSet, a \in [InnerSet -> AColPool],
        n \in BvdimSet, b \in [0 .. 1 -> BColPool],
        mk \in {"none", "sparse", "big", "dense"}, mc \in BOOLEAN }

\* b is given for two vectors; only the first bvdim are part of B.
\* Without a mask the complement flag is not read: it is fixed to FALSE.
\* The second vector of A is full of the pool's rows; a two-vector B holds at
\* least two entries and its first vector is empty or has both; the long
\* matrices have one vector in B.
ValidInput(in) ==
    /\ in.Mkind \in MaskKinds(in.avlen)
    /\ (in.avlen > 150 => in.bvdim = 1)
    /\ in.A[1] = {0, 4, 8}
    /\ (in.bvdim = 1 => in.B[1] = {})
    /\ (in.bvdim = 2 => /\ in.B[0] # {0}
                        /\ Cardinality(in.B[0]) + Cardinality(in.B[1]) >= 2)
    /\ (in.Mkind = "none" => ~in.Mask_comp)

\* ------------------------------------------------------- matrix accessors
cvlenOf(in) == in.avlen
bnvecOf(in) == in.bvdim
bjnzOf(in, kk) == Cardinality(in.B[kk])            \* Bp [kk+1] - Bp [kk]
RECURSIVE BpOf(_, _)
BpOf(in, kk) == IF kk <= 0 THEN 0 ELSE BpOf(in, kk - 1) + bjnzOf(in, kk - 1)
BiCol(in, kk) == SetToSeq(in.B[kk])
\* row index k of the entry at position pB of B(:,kk)
BiAt(in, kk, pB) == At(BiCol(in, kk), pB - BpOf(in, kk))
aknzOf(in, k) == Cardinality(in.A[k])              \* pA_end - pA
GB_is_packed(in) == in.Mkind = "dense"

\* mask semantics: M(i,j) as seen through Mask_struct
Mij(in, i, j) ==
    /\ i \in MRows(in, j)
    /\ (in.Mask_struct = TRUE \/ Mval(in, i, j) # 0)

\* the library is built with or without GBCOMPACT (lines 392, 1139)
GBCOMPACT_Set == BOOLEAN

\* -------------------------------------------------------------- semiring
\* lines 392-403: with GBCOMPACT no semiring is treated as built-in
builtin_semiring(in) ==
    in.GBCOMPACT = FALSE /\ in.semiring \in {"PLUS_TIMES", "ANY_PAIR"}
is_any_pair_semiring(in) == builtin_semiring(in) /\ in.semiring = "ANY_PAIR"
csizeOf(in) == 8
Mult(in, a, b) == IF in.semiring = "ANY_PAIR" THEN 1 ELSE a * b
\* (variant: the update overwrites the entry: an update is lost)
AddOverwrite(in, x, y) == y
AddOp(in, x, y) == IF in.semiring = "ANY_PAIR" THEN x ELSE x + y

\* ---------------------------------------------------------- GB_nthreads
GB_nthreads(work, chunk, nthreads_max) ==
    GB_IMAX(GB_IMIN(GB_IMAX(work, 1) \div GB_IMAX(chunk, 1), nthreads_max), 1)

\* --------------------------------------------------- GB_hash_table_size
\* (variant: the smallest power of 2 above flmax, not twice that)
HashSizeTight(flmax, cvlen, AxB_method) ==
    LET hash_size == Pow2(FloorLog2(flmax) + 1)
        use_Gustavson ==
            IF AxB_method = "GxB_AxB_GUSTAVSON" THEN TRUE
            ELSE IF AxB_method = "GxB_AxB_HASH" THEN hash_size >= cvlen
            ELSE hash_size >= cvlen \div 16
    IN  IF use_Gustavson THEN cvlen ELSE hash_size

\* (variant: the default method compares with cvlen, not cvlen/16)
HashSizeNoSixteenth(flmax, cvlen, AxB_method) ==
    LET hash_size == 2 * Pow2(FloorLog2(flmax) + 1)
    IN  IF AxB_method = "GxB_AxB_GUSTAVSON" \/ hash_size >= cvlen THEN cvlen
        ELSE hash_size

\* (variant: twice the smallest power of 2 that is >= flmax)
HashSizeAtLeast(flmax, cvlen, AxB_method) ==
    LET hash_size == 2 * Pow2(IF Pow2(FloorLog2(flmax)) = flmax
                              THEN FloorLog2(flmax) ELSE FloorLog2(flmax) + 1)
    IN  IF AxB_method = "GxB_AxB_GUSTAVSON" \/ hash_size >= cvlen THEN cvlen
        ELSE hash_size

\* (variant: a hash table of half the flop bound)
HashSizeHalved(flmax, cvlen, AxB_method) ==
    IF AxB_method = "GxB_AxB_GUSTAVSON" THEN cvlen
    ELSE GB_IMAX(1, Pow2(FloorLog2(flmax)) \div 2)

GB_hash_table_size(flmax, cvlen, AxB_method) ==
    LET hlog == FloorLog2(flmax)
        hash_size == 2 * Pow2(hlog + 1)
        use_Gustavson ==
            IF AxB_method = "GxB_AxB_GUSTAVSON" THEN TRUE
            ELSE IF AxB_method = "GxB_AxB_HASH" THEN hash_size >= cvlen
            ELSE hash_size >= cvlen \div 16
    IN  IF use_Gustavson THEN cvlen ELSE hash_size

\* ---------------------------------------------- GB_AxB_saxpy3_flopcount
\* work of one vector of B: the entries of A(:,k) for each B(k,j), plus the
\* entries of M(:,j) when a mask that is not packed is scanned
ColWork(in, useM, comp, kk) ==
    LET scanM == useM /\ ~GB_is_packed(in)
        mjnz  == IF scanM THEN Cardinality(MRows(in, kk)) ELSE 0
        skip  == in.B[kk] = {} \/ (scanM /\ mjnz = 0 /\ ~comp)
        bi    == BiCol(in, kk)
    IN  [fl |-> IF skip THEN 0
                ELSE mjnz + SumSeq([s \in 1 .. Len(bi) |-> aknzOf(in, bi[s])]),
         mw |-> IF skip THEN 0 ELSE mjnz]

RECURSIVE CumSum(_, _)
\* cumulative sum: result [k] = sum of w [0..k-1], of length n+1
CumSum(w, n) ==
    IF n = 0 THEN <<0>>
    ELSE LET c == CumSum(w, n - 1) IN Append(c, c[n] + w[n])

GB_AxB_saxpy3_flopcount(in, useM, comp) ==
    LET n == bnvecOf(in)
        w == [kk \in 1 .. n |-> ColWork(in, useM, comp, kk - 1)]
    IN  [Bflops |-> CumSum([kk \in 1 .. n |-> w[kk].fl], n),
         Mwork  |-> SumSeq([kk \in 1 .. n |-> w[kk].mw])]

\* ------------------------------------------------------------- GB_pslice
RECURSIVE GB_pslice_worker(_, _, _, _)
GB_pslice_worker(Slice, Work, tlo, thi) ==
    IF thi - tlo <= 1 THEN Slice
    ELSE LET p1 == Slice[tlo]
             p2 == Slice[thi]
         IN  IF p1 = p2
             THEN [t \in DOMAIN Slice |->
                     IF t > tlo /\ t < thi THEN p1 ELSE Slice[t]]
             ELSE LET k      == (p1 + p2) \div 2
                      work1  == At(Work, k) - At(Work, p1)
                      work2  == At(Work, p2) - At(Work, k)
                      nt     == thi - tlo
                      raw    == IF work1 + work2 = 0 THEN tlo + nt \div 2
                                ELSE tlo + (work1 * nt) \div (work1 + work2)
                      tmid   == GB_IMIN(GB_IMAX(raw, tlo + 1), thi - 1)
                      S1     == [Slice EXCEPT ![tmid] = k]
                  IN  GB_pslice_worker(
                          GB_pslice_worker(S1, Work, tlo, tmid), Work, tmid, thi)

\* Slice [0..ntasks]: task t works on Slice [t] .. Slice [t+1]-1
GB_pslice(Work, n, ntasks) ==
    IF n = 0 \/ ntasks <= 1 \/ At(Work, n) = 0
    THEN [t \in 0 .. ntasks |-> IF t = ntasks THEN n ELSE 0]
    ELSE GB_pslice_worker(
             [t \in 0 .. ntasks |-> IF t = ntasks THEN n ELSE IF t = 0 THEN 0 ELSE -1],
             Work, 0, ntasks)

\* ---------------------------------------------------------- target sizes
\* target_task_size = tts / nt and target_fine_size = tfs / (nt * GB_FINE_WORK)
Targets(total, nt, chunk) ==
    LET tts == GB_IMAX(total, chunk * nt)
    IN  [nt  |-> nt, tts |-> tts,
         tfs |-> GB_IMAX(tts, chunk * nt * GB_FINE_WORK)]

\* task_flops > 2 * GB_COSTLY * target_task_size
CostlyTask(tg, task_flops) ==
    task_flops * tg.nt * GB_COSTLY[2] > 2 * GB_COSTLY[1] * tg.tts
\* (variant: a costly vector is split even when B(:,j) has a single entry)
CostlyVectorAnyNnz(tg, jflops, bjnz) ==
    jflops * tg.nt * GB_COSTLY[2] > GB_COSTLY[1] * tg.tts
\* jflops > GB_COSTLY * target_task_size && bjnz > 1
CostlyVector(tg, jflops, bjnz) ==
    /\ jflops * tg.nt * GB_COSTLY[2] > GB_COSTLY[1] * tg.tts
    /\ bjnz > 1
\* ceil (jflops / target_fine_size)
TeamSize(tg, jflops) == GB_ICEIL(jflops * tg.nt * GB_FINE_WORK, tg.tfs)

\* ------------------------------------------- determine # of parallel tasks
RECURSIVE CountVectors(_, _, _, _, _, _)
\* the scan of a costly initial task, lines 633-668; acc = [nfine, ncoarse,
\* max_bjnz]
CountVectors(in, Bfl, tg, kk, klast, st) ==
    IF kk >= klast
    THEN IF st.kcoarse_start < klast
         THEN [st EXCEPT !.ncoarse = @ + 1] ELSE st
    ELSE LET jflops == At(Bfl, kk + 1) - At(Bfl, kk)
             bjnz   == bjnzOf(in, kk)
         IN  IF CostlyVector(tg, jflops, bjnz)
             THEN CountVectors(in, Bfl, tg, kk + 1, klast,
                     [kcoarse_start |-> kk + 1,
                      ncoarse  |-> IF st.kcoarse_start < kk
                                   THEN st.ncoarse + 1 ELSE st.ncoarse,
                      nfine    |-> st.nfine + TeamSize(tg, jflops),
                      max_bjnz |-> GB_IMAX(st.max_bjnz, bjnz)])
             ELSE CountVectors(in, Bfl, tg, kk + 1, klast, st)

RECURSIVE CountTasksFrom(_, _, _, _, _, _)
CountTasksFrom(in, Bfl, tg, Ci, taskid, st) ==
    IF taskid >= tg.nt THEN st
    ELSE LET kfirst == Ci[taskid]
             klast  == Ci[taskid + 1]
             task_flops == At(Bfl, klast) - At(Bfl, kfirst)
             st1 == IF klast - kfirst = 0 THEN st
                    ELSE IF CostlyTask(tg, task_flops)
                    THEN CountVectors(in, Bfl, tg, kfirst, klast,
                             [st EXCEPT !.kcoarse_start = kfirst])
                    ELSE [st EXCEPT !.ncoarse = @ + 1]
         IN  CountTasksFrom(in, Bfl, tg, Ci, taskid + 1, st1)

CountTasks(in, Bfl, tg, Ci) ==
    IF tg.nt > 1
    THEN CountTasksFrom(in, Bfl, tg, Ci, 0,
             [kcoarse_start |-> 0, ncoarse |-> 0, nfine |-> 0, max_bjnz |-> 0])
    ELSE IF bnvecOf(in) = 1
    THEN [kcoarse_start |-> 0, ncoarse |-> 0, nfine |-> 1, max_bjnz |-> 0]
    ELSE [kcoarse_start |-> 0, ncoarse |-> 1, nfine |-> 0, max_bjnz |-> 0]


\* --------------------------------------------------------- the task list
ZeroTask ==
    [start |-> 0, end |-> 0, vector |-> 0, hsize |-> 0, Hi |-> << >>,
     Hf |-> << >>, Hx |-> << >>, my_cjnz |-> 0, flops |-> 0, leader |-> 0,
     team_size |-> 0]

\* (variant: every task is written one entry further)
WriteTaskNext(cs, id, rec) ==
    [cs EXCEPT !.T = IF id + 1 \in DOMAIN @ THEN [@ EXCEPT ![id + 1] = rec] ELSE @,
               !.writes = Append(@, id + 1)]
\* TaskList [id] = rec; a write outside TaskList is recorded, not stored
WriteTask(cs, id, rec) ==
    [cs EXCEPT !.T = IF id \in DOMAIN @ THEN [@ EXCEPT ![id] = rec] ELSE @,
               !.writes = Append(@, id)]

RECURSIVE MaxFlopsUnclamped(_, _, _)
\* (variant: the max flop count starts from 0, not from 1)
MaxFlopsUnclamped(Bfl, kfirst, klast) ==
    IF kfirst > klast THEN 0
    ELSE GB_IMAX(At(Bfl, kfirst + 1) - At(Bfl, kfirst),
                 MaxFlopsUnclamped(Bfl, kfirst + 1, klast))

RECURSIVE MaxFlops(_, _, _)
\* max (1, max flop count of the vectors kfirst..klast)
MaxFlops(Bfl, kfirst, klast) ==
    IF kfirst > klast THEN 1
    ELSE GB_IMAX(At(Bfl, kfirst + 1) - At(Bfl, kfirst),
                 MaxFlops(Bfl, kfirst + 1, klast))

\* (variant: a coarse task that leaves out its last vector)
CoarseTaskShort(kfirst, klast, cs, taskid, Bfl, cvlen, method) ==
    WriteTask(cs, taskid,
        [ZeroTask EXCEPT !.start = kfirst, !.end = klast - 1, !.vector = -1,
                         !.hsize = cvlen, !.leader = taskid, !.team_size = 1])

\* cs.sized holds the flmax of every call of GB_hash_table_size, in order
GB_create_coarse_task(kfirst, klast, cs, taskid, Bfl, cvlen, method) ==
    LET flmax == MaxFlops(Bfl, kfirst, klast)
    IN  [WriteTask(cs, taskid,
            [start |-> kfirst, end |-> klast, vector |-> -1,
             hsize |-> GB_hash_table_size(flmax, cvlen, method),
             Hi |-> << >>, Hf |-> << >>, Hx |-> << >>, my_cjnz |-> 0,
             flops |-> At(Bfl, klast + 1) - At(Bfl, kfirst),
             leader |-> taskid, team_size |-> 1])
         EXCEPT !.sized = Append(@, flmax)]

\* Bflops2 after GB_cumsum: the flops of the entries of B(:,kk) before each
\* position, of length bjnz+1
Bflops2Of(in, kk) ==
    LET bi == BiCol(in, kk)
    IN  CumSum([s \in 1 .. Len(bi) |-> aknzOf(in, bi[s])], Len(bi))

\* (variant: the range of a fine task runs into the first entry of the next)
FineTasksOverlap(cs, fid, team_size, leader, kk, hsize, pB_start, Fine_slice, Bfl2) ==
    [cs EXCEPT
        !.T = [t \in DOMAIN @ |->
                  IF t \in cs.nf .. cs.nf + team_size - 1
                  THEN [start |-> pB_start + Fine_slice[t - cs.nf],
                        end |-> pB_start + Fine_slice[t - cs.nf + 1],
                        vector |-> kk, hsize |-> hsize,
                        Hi |-> << >>, Hf |-> << >>, Hx |-> << >>, my_cjnz |-> 0,
                        flops |-> At(Bfl2, Fine_slice[t - cs.nf + 1])
                                      - At(Bfl2, Fine_slice[t - cs.nf]),
                        leader |-> leader, team_size |-> team_size]
                  ELSE @[t]],
        !.writes = @ \o [n \in 1 .. team_size |-> cs.nf + n - 1],
        !.nf = @ + team_size]
RECURSIVE FineTasks(_, _, _, _, _, _, _, _, _)
\* the loop over fid of lines 818-835
FineTasks(cs, fid, team_size, leader, kk, hsize, pB_start, Fine_slice, Bfl2) ==
    IF fid >= team_size THEN cs
    ELSE LET pstart == Fine_slice[fid]
             pend   == Fine_slice[fid + 1]
             cs1 == WriteTask(cs, cs.nf,
                       [start |-> pB_start + pstart, end |-> pB_start + pend - 1,
                        vector |-> kk, hsize |-> hsize,
                        Hi |-> << >>, Hf |-> << >>, Hx |-> << >>,
                        my_cjnz |-> 0,
                        flops |-> At(Bfl2, pend) - At(Bfl2, pstart),
                        leader |-> leader, team_size |-> team_size])
         IN  FineTasks([cs1 EXCEPT !.nf = @ + 1], fid + 1, team_size, leader,
                       kk, hsize, pB_start, Fine_slice, Bfl2)

RECURSIVE CreateVectors(_, _, _, _, _, _, _)
\* the scan of a costly initial task, lines 758-846
CreateVectors(in, Bfl, tg, method, kk, klast, cs) ==
    IF kk >= klast
    THEN IF cs.kcoarse_start < klast
         THEN [GB_create_coarse_task(cs.kcoarse_start, klast - 1, cs, cs.nc,
                   Bfl, cvlenOf(in), method) EXCEPT !.nc = @ + 1]
         ELSE cs
    ELSE LET jflops == At(Bfl, kk + 1) - At(Bfl, kk)
             bjnz   == bjnzOf(in, kk)
         IN  IF CostlyVector(tg, jflops, bjnz)
             THEN LET cs1 == IF cs.kcoarse_start < kk
                             THEN [GB_create_coarse_task(cs.kcoarse_start, kk - 1,
                                       cs, cs.nc, Bfl, cvlenOf(in), method)
                                   EXCEPT !.nc = @ + 1]
                             ELSE cs
                      Bfl2 == Bflops2Of(in, kk)
                      team_size == TeamSize(tg, jflops)
                      Fine_slice == GB_pslice(Bfl2, bjnz, team_size)
                      hsize == GB_hash_table_size(jflops, cvlenOf(in), method)
                      cs2 == FineTasks([cs1 EXCEPT !.kcoarse_start = kk + 1,
                                                   !.sized = Append(@, jflops)], 0,
                                 team_size, cs1.nf, kk, hsize, BpOf(in, kk),
                                 Fine_slice, Bfl2)
                  IN  CreateVectors(in, Bfl, tg, method, kk + 1, klast, cs2)
             ELSE CreateVectors(in, Bfl, tg, method, kk + 1, klast, cs)

RECURSIVE CreateTasksFrom(_, _, _, _, _, _, _)
CreateTasksFrom(in, Bfl, tg, method, Ci, taskid, cs) ==
    IF taskid >= tg.nt THEN cs
    ELSE LET kfirst == Ci[taskid]
             klast  == Ci[taskid + 1]
             task_flops == At(Bfl, klast) - At(Bfl, kfirst)
             cs1 == IF klast - kfirst = 0 THEN cs
                    ELSE IF CostlyTask(tg, task_flops)
                    THEN CreateVectors(in, Bfl, tg, method, kfirst, klast,
                             [cs EXCEPT !.kcoarse_start = kfirst])
                    ELSE [GB_create_coarse_task(kfirst, klast - 1, cs, cs.nc,
                              Bfl, cvlenOf(in), method) EXCEPT !.nc = @ + 1]
         IN  CreateTasksFrom(in, Bfl, tg, method, Ci, taskid + 1, cs1)

\* lines 727-876: the tasks written into the calloc'ed TaskList [0..nt-1]
CreateTasks(in, Bfl, tg, method, Ci, nfine_, ntasks_) ==
    LET cs0 == [T |-> [t \in 0 .. ntasks_ - 1 |-> ZeroTask], nf |-> 0,
                nc |-> nfine_, kcoarse_start |-> 0, writes |-> << >>,
                sized |-> << >>]
    IN  IF tg.nt > 1
        THEN CreateTasksFrom(in, Bfl, tg, method, Ci, 0, cs0)
        ELSE LET cs1 == GB_create_coarse_task(0, bnvecOf(in) - 1, cs0, 0, Bfl,
                            cvlenOf(in), method)
             IN  IF bnvecOf(in) = 1
                 THEN [cs1 EXCEPT !.T[0].start = 0,
                                  !.T[0].end = BpOf(in, 1) - 1,
                                  !.T[0].vector = 0]
                 ELSE cs1


\* ------------------------------------------------- hash table allocation
IsLeader(T, taskid) == taskid = T[taskid].leader
IsFine(T, taskid) == T[taskid].vector >= 0
UsesGustavson(T, taskid, cvlen) == T[taskid].hsize = cvlen

\* the increments of Hf_split (int64 words), Hi_split (int64 words) and
\* Hx_split (bytes) of one leader, lines 1007-1028 and 1079-1098
\* (variant: the padding after the Hf table is left out)
HfSpaceUnpadded(T, taskid, cvlen) ==
    IF IsFine(T, taskid) /\ UsesGustavson(T, taskid, cvlen)
    THEN GB_ICEIL(T[taskid].hsize, sizeof_int64)
    ELSE T[taskid].hsize
HfSpace(T, taskid, cvlen) ==
    IF IsFine(T, taskid) /\ UsesGustavson(T, taskid, cvlen)
    THEN GB_ICEIL(T[taskid].hsize + hi_pad, sizeof_int64)
    ELSE T[taskid].hsize + hi_pad
HiSpace(T, taskid, cvlen) ==
    IF ~IsFine(T, taskid) /\ ~UsesGustavson(T, taskid, cvlen)
    THEN T[taskid].hsize + hi_pad ELSE 0
\* (variant: Hx is reserved whatever the semiring)
HxSpaceAlways(T, taskid, any_pair, csize) == T[taskid].hsize * csize + hx_pad
HxSpace(T, taskid, any_pair, csize) ==
    IF ~any_pair THEN T[taskid].hsize * csize + hx_pad ELSE 0

RECURSIVE HashTotals(_, _, _, _, _, _)
\* lines 986-1029
HashTotals(T, ntasks_, taskid, cvlen, any_pair, csize) ==
    IF taskid >= ntasks_ THEN [Hi |-> 0, Hf |-> 0, Hx |-> 0]
    ELSE LET r == HashTotals(T, ntasks_, taskid + 1, cvlen, any_pair, csize)
         IN  IF ~IsLeader(T, taskid) THEN r
             ELSE [Hi |-> r.Hi + HiSpace(T, taskid, cvlen),
                   Hf |-> r.Hf + HfSpace(T, taskid, cvlen),
                   Hx |-> r.Hx + HxSpace(T, taskid, any_pair, csize)]

\* a pointer into a buffer: <<offset>>, or << >> (NULL) when the buffer is
\* NULL; the Hi, Hf and Hx of a calloc'ed task are << >>
Ptr(total, off) == IF total > 0 THEN <<off>> ELSE << >>

RECURSIVE HashSplit(_, _, _, _, _, _, _, _)
\* lines 1054-1099; sp = the offsets Hi_split, Hf_split, Hx_split
HashSplit(T, ntasks_, taskid, cvlen, any_pair, csize, tot, sp) ==
    IF taskid >= ntasks_ THEN T
    ELSE IF ~IsLeader(T, taskid)
    THEN HashSplit(T, ntasks_, taskid + 1, cvlen, any_pair, csize, tot, sp)
    ELSE HashSplit(
             [T EXCEPT ![taskid].Hi = Ptr(tot.Hi, sp.Hi),
                       ![taskid].Hf = Ptr(tot.Hf, sp.Hf),
                       ![taskid].Hx = Ptr(tot.Hx, sp.Hx)],
             ntasks_, taskid + 1, cvlen, any_pair, csize, tot,
             [Hi |-> sp.Hi + HiSpace(T, taskid, cvlen),
              Hf |-> sp.Hf + HfSpace(T, taskid, cvlen),
              Hx |-> sp.Hx + HxSpace(T, taskid, any_pair, csize)])

\* lines 1101-1114: fine tasks share the hash table of their leader
ShareTeamTables(T, nfine_) ==
    [t \in DOMAIN T |->
        IF t < nfine_ /\ t # T[t].leader /\ T[t].leader \in DOMAIN T
        THEN [T[t] EXCEPT !.Hf = T[T[t].leader].Hf, !.Hx = T[T[t].leader].Hx]
        ELSE T[t]]

\* --------------------------------------------- saxpy3 kernels (Hash, Gustavson)
\* A table maps each occupied slot to [i, f, x]: the row index held, the
\* state ("mask": M(i,j) scattered, "val": C(i,j) present) and the value.
GB_HASH_FACTOR == 107
GB_HASHF(i, hash_size) == (i * GB_HASH_FACTOR) % hash_size
GB_REHASH(hash, hash_size) == (hash + 1) % hash_size

RECURSIVE Probe(_, _, _, _, _)
\* linear probing: the slot that holds i, else the first free slot; -1 when
\* the table is full and does not hold i (the probe never ends)
Probe(tab, i, hash_size, hash, n) ==
    IF n >= hash_size THEN -1
    ELSE IF hash \notin DOMAIN tab THEN hash
    ELSE IF tab[hash].i = i THEN hash
    ELSE Probe(tab, i, hash_size, GB_REHASH(hash, hash_size), n + 1)

SlotOf(tab, i, hash_size, gus) ==
    IF gus THEN i ELSE Probe(tab, i, hash_size, GB_HASHF(i, hash_size), 0)

\* how the kernels see the mask: "none", "lookup" (M is packed and is read in
\* place), "M" or "notM" (M(:,j) is scattered into the table)
MaskMode(in, Mpresent, comp) ==
    IF ~Mpresent THEN "none"
    ELSE IF GB_is_packed(in) THEN "lookup"
    ELSE IF comp THEN "notM" ELSE "M"

Put(tab, slot, e) == (slot :> e) @@ tab

RECURSIVE ScatterSeq(_, _, _, _)
\* the rows are inserted in order, first to last
ScatterSeq(tab, rows, hash_size, gus) ==
    IF rows = << >> THEN tab
    ELSE IF Len(rows) = 1
    THEN LET i == rows[1]
             slot == SlotOf(tab, i, hash_size, gus)
         IN  Put(tab, slot, [i |-> i, f |-> "mask", x |-> 0])
    ELSE LET h == Len(rows) \div 2
         IN  ScatterSeq(ScatterSeq(tab, SubSeq(rows, 1, h), hash_size, gus),
                        SubSeq(rows, h + 1, Len(rows)), hash_size, gus)

\* the table after M(:,j) is scattered into it
ScatterMask(in, mode, j, hash_size, gus) ==
    LET rows == {i \in MRows(in, j) : Mij(in, i, j)}
    IN  IF mode \notin {"M", "notM"} \/ bjnzOf(in, j) = 0 THEN << >>
        ELSE IF gus THEN [i \in rows |-> [i |-> i, f |-> "mask", x |-> 0]]
        ELSE IF Cardinality(rows) > hash_size       \* more keys than slots
        THEN (-1) :> [i |-> -1, f |-> "mask", x |-> 0]
        ELSE ScatterSeq(<< >>, SetToSeq(rows), hash_size, gus)

\* C(i,j) += t for one product t = A(i,k)*B(k,j)
ApplyTerm(in, tab, hash_size, gus, mode, comp, j, term) ==
    LET i == term.i
        slot == SlotOf(tab, i, hash_size, gus)
        held == slot \in DOMAIN tab
        new  == [i |-> i, f |-> "val", x |-> term.t]
        upd  == [i |-> i, f |-> "val", x |-> AddOp(in, tab[slot].x, term.t)]
    IN  IF mode = "lookup" /\ (Mij(in, i, j) = comp) THEN tab
        ELSE IF held /\ tab[slot].f = "mask"
        THEN IF mode = "M" THEN Put(tab, slot, new) ELSE tab
        ELSE IF held THEN Put(tab, slot, upd)
        ELSE IF mode = "M" THEN tab
        ELSE Put(tab, slot, new)

RECURSIVE ApplyTerms(_, _, _, _, _, _, _, _)
ApplyTerms(in, tab, hash_size, gus, mode, comp, j, terms) ==
    IF terms = << >> THEN tab
    ELSE ApplyTerms(in,
             ApplyTerm(in, tab, hash_size, gus, mode, comp, j, Head(terms)),
             hash_size, gus, mode, comp, j, Tail(terms))

\* the products A(:,k)*B(k,j) of one entry of B, in the order of A(:,k)
TermsOfEntry(in, j, k) ==
    LET ai == SetToSeq(in.A[k])
    IN  [s \in 1 .. Len(ai) |->
            [i |-> ai[s], t |-> Mult(in, Aval(ai[s], k), Bval(k, j))]]

RECURSIVE TermsRange(_, _, _, _)
\* the products of the entries of B(:,j) at positions pstart..pend
TermsRange(in, j, pstart, pend) ==
    IF pstart > pend THEN << >>
    ELSE TermsOfEntry(in, j, BiAt(in, j, pstart))
            \o TermsRange(in, j, pstart + 1, pend)

\* the entries C(:,j) held in a table, in slot order
SlotOrder(tab) ==
    LET slots == SetToSeq({s \in DOMAIN tab : s >= 0 /\ tab[s].f = "val"})
    IN  [n \in 1 .. Len(slots) |-> [i |-> tab[slots[n]].i, x |-> tab[slots[n]].x]]

RECURSIVE InsertByRow(_, _)
InsertByRow(sorted, e) ==
    IF sorted = << >> THEN <<e>>
    ELSE IF e.i < Head(sorted).i THEN <<e>> \o sorted
    ELSE <<Head(sorted)>> \o InsertByRow(Tail(sorted), e)

RECURSIVE SortByRow(_)
SortByRow(es) ==
    IF es = << >> THEN << >> ELSE InsertByRow(SortByRow(Tail(es)), Head(es))

\* (variant: the entries of a hash table are gathered in slot order)
GatherUnsorted(tab, gus) == SlotOrder(tab)

\* gather C(:,j) from a table: Gustavson's slots are the row indices, the
\* entries of a hash table are sorted
GatherColumn(tab, gus) ==
    IF gus THEN SlotOrder(tab) ELSE SortByRow(SlotOrder(tab))

\* the table of a coarse task after it has computed C(:,j)
CoarseTable(in, Mpresent, comp, j, hash_size, gus) ==
    LET mode == MaskMode(in, Mpresent, comp)
    IN  IF bjnzOf(in, j) = 0 THEN << >>      \* nothing to do for an empty B(:,j)
        ELSE ApplyTerms(in, ScatterMask(in, mode, j, hash_size, gus),
                        hash_size, gus, mode, comp, j,
                        TermsRange(in, j, BpOf(in, j), BpOf(in, j + 1) - 1))

\* the probe of some insertion did not end
TableFull(tab) == -1 \in DOMAIN tab


\* ------------------------------------------------------------------ state
VARIABLES
    pc,                 \* position in GB_AxB_saxpy3
    inp,                \* the parameters of the call
    M,                  \* "M" or "NULL": the mask in use
    Mask_comp, AxB_method, M_dense_in_place, Mwork, Bflops, total_flops,
    nthreads, ntasks_initial, Coarse_initial, nfine, ncoarse, max_bjnz, ntasks,
    TaskList,
    mem,                \* the workspace arrays that are allocated
    Chandle,            \* "NULL" or "C"
    Htotal,             \* Hi_size_total, Hf_size_total, Hx_size_total
    Hteam,              \* the shared table of each fine-task team, by leader
    pos,                \* # of products each fine task has added
    cjnz,               \* # of entries of each vector of C found so far
    C,                  \* the output matrix: p, i, x
    info, done, mask_applied,
    tiers,              \* the kernels tried, in order
    kernel,             \* the kernel that is running
    started,            \* the parallel phases that have begun
    sizer,              \* a call of GB_hash_table_size alone: arguments, result
    reducer,            \* a reduction to a scalar alone: monoid, entries, result
    slicer,             \* the slicing of one costly vector B(:,j) alone
    object,             \* a user-defined or built-in object and the calls on it
    bassign,            \* a call of GB_bitmap_assign_notM_noaccum_whole alone
    ewise               \* an element-wise add or union, with and without the JIT

vars == <<pc, inp, M, Mask_comp, AxB_method, M_dense_in_place, Mwork, Bflops,
          total_flops, nthreads, ntasks_initial, Coarse_initial, nfine, ncoarse,
          max_bjnz, ntasks, TaskList, mem, Chandle, Htotal, Hteam, pos, cjnz, C,
          info, done, mask_applied, tiers, kernel, started, sizer,
          reducer, slicer, object, bassign, ewise>>

\* the variables of the functions that are exercised on their own
aloneVars == <<sizer, reducer, slicer, object, bassign, ewise>>
flopVars == <<M, Mask_comp, AxB_method, M_dense_in_place, Mwork, Bflops,
              total_flops>>
partVars == <<nthreads, ntasks_initial, Coarse_initial, nfine, ncoarse,
              max_bjnz, ntasks>>
kernVars == <<Hteam, pos, cjnz, C>>
dispVars == <<done, tiers, kernel>>

\* GB_bitmap_assign_2_whole is called with a bitmap or full mask
AssignCall ==
    CHOOSE in \in Inputs : ValidInput(in) /\ in.Mkind = "dense" /\ ~in.Mask_comp

\* the state of a call before it has done anything
Fresh ==
    /\ M = IF inp.Mkind = "none" THEN "NULL" ELSE "M"
    /\ Mask_comp = inp.Mask_comp
    /\ AxB_method = "unread"
    /\ M_dense_in_place = FALSE
    /\ Mwork = 0
    /\ Bflops = << >>
    /\ total_flops = 0
    /\ nthreads = 0 /\ ntasks_initial = 0 /\ Coarse_initial = << >>
    /\ nfine = 0 /\ ncoarse = 0 /\ max_bjnz = 0 /\ ntasks = 0
    /\ TaskList = << >>
    /\ mem = {}
    /\ Chandle = "NULL"
    /\ Htotal = [Hi |-> 0, Hf |-> 0, Hx |-> 0]
    /\ Hteam = << >>
    /\ pos = << >>
    /\ cjnz = << >>
    /\ C = [p |-> << >>, i |-> << >>, x |-> << >>]
    /\ info = "none" /\ done = FALSE /\ mask_applied = FALSE
    /\ tiers = << >>
    /\ kernel = "none"
    /\ started = {}

\* a call of GB_AxB_saxpy3, or a call of GB_bitmap_assign_2_whole
Init ==
    /\ \/ pc = "start" /\ inp \in {in \in Inputs : ValidInput(in)}
       \/ pc = "bitmap_assign" /\ inp = AssignCall
    /\ sizer = "idle"
    /\ reducer = "idle"
    /\ slicer = "idle" /\ object = "idle" /\ bassign = "idle" /\ ewise = "idle"
    /\ Fresh

\* ------------------------------------------------------------ free workspace
GB_FREE_INITIAL_WORK(m) ==
    m \ {"Bflops2", "Coarse_Work", "Coarse_initial", "Fine_slice"}
\* (variant: the hash buffers are not freed)
FreeWorkKeepsHash(m) == GB_FREE_INITIAL_WORK(m) \ {"TaskList"}
GB_FREE_WORK(m) ==
    GB_FREE_INITIAL_WORK(m) \ {"TaskList", "Hi_all", "Hf_all", "Hx_all"}

\* GB_FREE_ALL ; return (info) : lines 439-444, 479, 559, 601-606, 715-721,
\* 1045-1052, 1193
\* (variant: the symbolic phase can fail too)
FailPointsInSymbolic == {"start", "flopcount", "recount", "slice",
                         "alloc_tasks", "alloc_hash", "dispatch", "prune"}
FailPoints == {"start", "flopcount", "recount", "slice", "alloc_tasks",
               "alloc_hash", "prune"}
ErrorReturn ==
    /\ pc \in FailPoints
    /\ (pc = "slice" => ntasks_initial > 1)
    /\ mem' = GB_FREE_WORK(mem)
    /\ Chandle' = "NULL"
    /\ info' = "GrB_OUT_OF_MEMORY"
    /\ pc' = "done"
    /\ UNCHANGED aloneVars
    /\ UNCHANGED <<inp, flopVars, partVars, TaskList, Htotal, kernVars,
                   dispVars, mask_applied, started>>

\* lines 436-446: C->p and C->h are allocated, C->p as zeros
NewC ==
    /\ pc = "start"
    /\ Chandle' = "C"
    /\ Bflops' = [kk \in 1 .. bnvecOf(inp) + 1 |-> 0]
    /\ pc' = "flopcount"
    /\ UNCHANGED aloneVars
    /\ UNCHANGED <<inp, M, Mask_comp, AxB_method, M_dense_in_place, Mwork,
                   total_flops, partVars, TaskList, mem, Htotal, kernVars,
                   info, dispVars, mask_applied, started>>

\* lines 476-481
FlopCount ==
    /\ pc = "flopcount"
    /\ LET r == GB_AxB_saxpy3_flopcount(inp, M # "NULL", Mask_comp)
       IN  /\ Bflops' = r.Bflops
           /\ Mwork' = r.Mwork
           /\ total_flops' = At(r.Bflops, bnvecOf(inp))
    /\ pc' = "mask"
    /\ UNCHANGED aloneVars
    /\ UNCHANGED <<inp, M, Mask_comp, AxB_method, M_dense_in_place, partVars,
                   TaskList, mem, Chandle, Htotal, kernVars, info, dispVars,
                   mask_applied, started>>

\* (variant: the cost test never discards the mask)
MaskNeverTooCostly(axbflops, mwork) == FALSE

\* line 541: the mask is too costly to use
MaskTooCostly(axbflops, mwork) ==
    axbflops * GB_MWORK_ALPHA[2] < mwork * GB_MWORK_ALPHA[1]
\* (variant: a dense mask is never read in place)
MaskNeverInPlace(axbflops, mwork) == FALSE
\* line 514: a dense mask is cheap enough to be read in place
MaskInPlace(axbflops, mwork) ==
    axbflops * GB_MWORK_BETA[2] < mwork * GB_MWORK_BETA[1]

\* lines 496-570: is the mask applied here, in place, or by the caller
MaskDecision ==
    /\ pc = "mask"
    /\ \E meth \in MethodSet :
        LET axbflops == total_flops - Mwork
            M_is_dense == M # "NULL" /\ GB_is_packed(inp)
            dense_work == cvlenOf(inp) * inp.bvdim
        IN  /\ inp' = [inp EXCEPT !.AxB_method = meth]
            /\ IF M_is_dense /\ meth \in {"GxB_DEFAULT", "GxB_AxB_SAXPY"}
               THEN /\ Mwork' = dense_work
                    /\ IF MaskInPlace(axbflops, dense_work)
                       THEN /\ M_dense_in_place' = TRUE
                            /\ AxB_method' = "GxB_AxB_HASH"
                            /\ UNCHANGED <<Bflops, total_flops>>
                       ELSE /\ AxB_method' = "GxB_AxB_GUSTAVSON"
                            /\ Bflops' = [kk \in 1 .. bnvecOf(inp) + 1 |->
                                             Bflops[kk] + cvlenOf(inp) * kk]
                            /\ total_flops' = At(Bflops', bnvecOf(inp))
                            /\ UNCHANGED M_dense_in_place
                    /\ pc' = "threads"
                    /\ UNCHANGED <<M, Mask_comp>>
               ELSE IF M # "NULL" /\ MaskTooCostly(axbflops, Mwork)
               THEN /\ M' = "NULL"
                    /\ Mask_comp' = FALSE
                    /\ Bflops' = [kk \in 1 .. bnvecOf(inp) + 1 |-> 0]
                    /\ AxB_method' = meth
                    /\ pc' = "recount"
                    /\ UNCHANGED <<M_dense_in_place, Mwork, total_flops>>
               ELSE /\ AxB_method' = meth
                    /\ pc' = "threads"
                    /\ UNCHANGED <<M, Mask_comp, M_dense_in_place, Mwork,
                                   Bflops, total_flops>>
    /\ UNCHANGED aloneVars
    /\ UNCHANGED <<partVars, TaskList, mem, Chandle, Htotal, kernVars, info,
                   dispVars, mask_applied, started>>

\* lines 558-562: redo the flop count analysis, without the mask
Recount ==
    /\ pc = "recount"
    /\ LET r == GB_AxB_saxpy3_flopcount(inp, FALSE, FALSE)
       IN  /\ Bflops' = r.Bflops
           /\ Mwork' = r.Mwork
           /\ total_flops' = At(r.Bflops, bnvecOf(inp))
    /\ pc' = "threads"
    /\ UNCHANGED aloneVars
    /\ UNCHANGED <<inp, M, Mask_comp, AxB_method, M_dense_in_place, partVars,
                   TaskList, mem, Chandle, Htotal, kernVars, info, dispVars,
                   mask_applied, started>>

\* lines 576-582
DetermineThreads ==
    /\ pc = "threads"
    /\ \E nmax \in 1 .. MaxThreads, ch \in ChunkSet :
        /\ inp' = [inp EXCEPT !.nthreads_max = nmax, !.chunk = ch]
        /\ nthreads' = GB_nthreads(total_flops, ch, nmax)
        /\ ntasks_initial' = IF nthreads' = 1 THEN 1
                             ELSE GB_NTASKS_PER_THREAD * nthreads'
    /\ pc' = "slice"
    /\ UNCHANGED aloneVars
    /\ UNCHANGED <<flopVars, Coarse_initial, nfine, ncoarse, max_bjnz, ntasks,
                   TaskList, mem, Chandle, Htotal, kernVars, info, dispVars,
                   mask_applied, started>>

TargetsNow == Targets(total_flops, ntasks_initial, inp.chunk)

\* lines 588-700: the initial coarse tasks and the # of tasks
DetermineTasks ==
    /\ pc = "slice"
    /\ Coarse_initial' = IF ntasks_initial > 1
                         THEN GB_pslice(Bflops, bnvecOf(inp), ntasks_initial)
                         ELSE << >>
    /\ mem' = IF ntasks_initial > 1 THEN mem \cup {"Coarse_initial"} ELSE mem
    /\ LET r == CountTasks(inp, Bflops, TargetsNow, Coarse_initial')
       IN  /\ nfine' = r.nfine
           /\ ncoarse' = r.ncoarse
           /\ max_bjnz' = r.max_bjnz
           /\ ntasks' = r.ncoarse + r.nfine
    /\ pc' = "alloc_tasks"
    /\ UNCHANGED aloneVars
    /\ UNCHANGED <<inp, flopVars, nthreads, ntasks_initial, TaskList, Chandle,
                   Htotal, kernVars, info, dispVars, mask_applied, started>>

\* lines 706-713
AllocTasks ==
    /\ pc = "alloc_tasks"
    /\ mem' = mem \cup {"TaskList", "Coarse_Work"}
                  \cup (IF max_bjnz > 0 THEN {"Fine_slice", "Bflops2"} ELSE {})
    /\ TaskList' = [t \in 0 .. ntasks - 1 |-> ZeroTask]
    /\ pc' = "create"
    /\ UNCHANGED aloneVars
    /\ UNCHANGED <<inp, flopVars, partVars, Chandle, Htotal, kernVars, info,
                   dispVars, mask_applied, started>>

\* lines 727-885
CreateAllTasks ==
    /\ pc = "create"
    /\ TaskList' = CreateTasks(inp, Bflops, TargetsNow, AxB_method,
                               Coarse_initial, nfine, ntasks).T
    /\ mem' = GB_FREE_INITIAL_WORK(mem)
    /\ started' = started \cup {"tasks"}
    /\ pc' = "alloc_hash"
    /\ UNCHANGED aloneVars
    /\ UNCHANGED <<inp, flopVars, partVars, Chandle, Htotal, kernVars, info,
                   dispVars, mask_applied>>

\* lines 983-1114
AllocHash ==
    /\ pc = "alloc_hash"
    /\ \E sr \in SemiringSet, compact \in GBCOMPACT_Set :
        /\ inp' = [inp EXCEPT !.semiring = sr, !.GBCOMPACT = compact]
        /\ LET cvlen == cvlenOf(inp)
               anyp == is_any_pair_semiring(inp')
               tot == HashTotals(TaskList, ntasks, 0, cvlen, anyp, csizeOf(inp'))
           IN  /\ Htotal' = tot
               /\ mem' = mem \cup (IF tot.Hi > 0 THEN {"Hi_all"} ELSE {})
                             \cup (IF tot.Hf > 0 THEN {"Hf_all"} ELSE {})
                             \cup (IF tot.Hx > 0 THEN {"Hx_all"} ELSE {})
               /\ TaskList' = ShareTeamTables(
                       HashSplit(TaskList, ntasks, 0, cvlen, anyp, csizeOf(inp'),
                                 tot, [Hi |-> 0, Hf |-> 0, Hx |-> 0]),
                       nfine)
    /\ pc' = "symbolic"
    /\ UNCHANGED aloneVars
    /\ UNCHANGED <<flopVars, partVars, Chandle, kernVars, info, dispVars,
                   mask_applied, started>>


\* ------------------------------------------------------ symbolic phase
FineIds == {t \in DOMAIN TaskList : t < nfine}
CoarseIds == {t \in DOMAIN TaskList : t >= nfine}
FineLeaders == {t \in FineIds : TaskList[t].leader = t}
GusTask(t) == TaskList[t].hsize = cvlenOf(inp)
\* (variant: the kernels are handed the complement of the caller's flag)
MaskArgsFlipped == [Mpresent |-> M # "NULL", comp |-> ~Mask_comp]

\* lines 1124-1125: the mask handed to the symbolic phase and the kernels
MaskArgs == [Mpresent |-> M # "NULL", comp |-> Mask_comp]
ModeNow(in) == MaskMode(in, MaskArgs.Mpresent, MaskArgs.comp)

\* the coarse tasks that compute C(:,j), and the fine teams that do
CoarseOf(j) == {t \in CoarseIds : TaskList[t].start <= j /\ j <= TaskList[t].end}
TeamsOf(j) == {t \in FineLeaders : TaskList[t].vector = j}

CoarseTableOf(in, t, j) ==
    CoarseTable(in, MaskArgs.Mpresent, MaskArgs.comp, j, TaskList[t].hsize,
                GusTask(t))

\* GB_AxB_saxpy3_symbolic, line 1124: coarse tasks count the entries of their
\* vectors of C, fine teams scatter M(:,j) into their shared table
Symbolic ==
    /\ pc = "symbolic"
    /\ \E ms \in (IF M # "NULL" THEN BOOLEAN ELSE {FALSE}) :
        /\ inp' = [inp EXCEPT !.Mask_struct = ms]
        /\ LET tabs == [j \in 0 .. bnvecOf(inp) - 1 |->
                          IF CoarseOf(j) = {} THEN << >>
                          ELSE CoarseTableOf(inp', CHOOSE t \in CoarseOf(j) : TRUE, j)]
           IN  /\ cjnz' = [j \in 0 .. bnvecOf(inp) - 1 |-> Len(SlotOrder(tabs[j]))]
               /\ pc' = IF \E j \in DOMAIN tabs : TableFull(tabs[j])
                        THEN "hang" ELSE "dispatch"
        /\ Hteam' = [t \in FineLeaders |->
                        ScatterMask(inp', ModeNow(inp'), TaskList[t].vector,
                                    TaskList[t].hsize, GusTask(t))]
    /\ pos' = [t \in FineIds |-> 0]
    /\ started' = started \cup {"symbolic"}
    /\ UNCHANGED aloneVars
    /\ UNCHANGED <<flopVars, partVars, TaskList, mem, Chandle, Htotal, C, info,
                   dispVars, mask_applied>>

\* ------------------------------------------------------------- dispatch
\* tiers holds one record per kernel tried, in order: its name and the info
\* it returned ("running" until it returns)
Tried(name, r) == [tier |-> name, info |-> r]
Returns(ts, r) == [ts EXCEPT ![Len(ts)].info = r]

\* (variant: any return of the worker counts as done)
DoneAlways(i) == TRUE
\* line 1151: done = (info != GrB_NO_VALUE)
DoneAfter(i) == i # "GrB_NO_VALUE"
\* line 1170: if (!done) the generic kernel is called
AfterWorker(d) == IF d THEN "after_kernel" ELSE "generic"

\* lines 1159-1162: the switch factory calls the worker of a built-in
\* semiring, which runs or is disabled (GB_DISABLE) and returns GrB_NO_VALUE
BuiltinWorker ==
    /\ pc = "dispatch"
    /\ builtin_semiring(inp)
    /\ \/ /\ tiers' = Append(tiers, Tried("builtin", "running"))
          /\ kernel' = "builtin"
          /\ started' = started \cup {"numeric"}
          /\ pc' = "numeric_fine"
          /\ UNCHANGED <<info, done>>
       \/ /\ tiers' = Append(tiers, Tried("builtin", "GrB_NO_VALUE"))
          /\ info' = "GrB_NO_VALUE"
          /\ done' = DoneAfter(info')
          /\ pc' = AfterWorker(done')
          /\ UNCHANGED <<kernel, started>>
    /\ UNCHANGED aloneVars
    /\ UNCHANGED <<inp, flopVars, partVars, TaskList, mem, Chandle, Htotal,
                   kernVars, mask_applied>>

\* lines 1139-1162: no worker is called: the semiring is not built-in, or the
\* factory is compiled out
NoBuiltinWorker ==
    /\ pc = "dispatch"
    /\ ~builtin_semiring(inp)
    /\ pc' = AfterWorker(done)
    /\ UNCHANGED aloneVars
    /\ UNCHANGED <<inp, flopVars, partVars, TaskList, mem, Chandle, Htotal,
                   kernVars, info, dispVars, mask_applied, started>>

\* lines 1170-1175: GB_AxB_saxpy3_generic
GenericKernel ==
    /\ pc = "generic"
    /\ tiers' = Append(tiers, Tried("generic", "running"))
    /\ kernel' = "generic"
    /\ started' = started \cup {"numeric"}
    /\ pc' = "numeric_fine"
    /\ UNCHANGED aloneVars
    /\ UNCHANGED <<inp, flopVars, partVars, TaskList, mem, Chandle, Htotal,
                   kernVars, info, done, mask_applied>>

\* ------------------------------------------------------- numeric phase
TaskTerms(t) ==
    TermsRange(inp, TaskList[t].vector, TaskList[t].start, TaskList[t].end)
Remaining(t) == pos[t] < Len(TaskTerms(t))
\* teams own disjoint tables: they are run one after the other, the members
\* of the running team in every order
ActiveLeader ==
    LET busy == {TaskList[t].leader : t \in {u \in FineIds : Remaining(u)}}
    IN  CHOOSE l \in busy : \A m \in busy : l <= m

\* one atomic update of the shared table by a fine task: C(i,j) += t
FineUpdate(t) ==
    /\ pc = "numeric_fine"
    /\ t \in FineIds
    /\ Remaining(t)
    /\ TaskList[t].leader = ActiveLeader
    /\ LET l == TaskList[t].leader
           tab == ApplyTerm(inp, Hteam[l], TaskList[t].hsize, GusTask(t),
                            ModeNow(inp), MaskArgs.comp, TaskList[t].vector,
                            TaskTerms(t)[pos[t] + 1])
       IN  /\ Hteam' = [Hteam EXCEPT ![l] = tab]
           /\ pc' = IF TableFull(tab) THEN "hang" ELSE pc
    /\ pos' = [pos EXCEPT ![t] = @ + 1]
    /\ UNCHANGED aloneVars
    /\ UNCHANGED <<inp, flopVars, partVars, TaskList, mem, Chandle, Htotal,
                   cjnz, C, info, dispVars, mask_applied, started>>

\* C(:,j) as gathered from the table of the task or team that computed it
ColumnEntries(j) ==
    IF TeamsOf(j) # {}
    THEN LET l == CHOOSE t \in TeamsOf(j) : TRUE
         IN  GatherColumn(Hteam[l], GusTask(l))
    ELSE IF CoarseOf(j) # {}
    THEN LET t == CHOOSE u \in CoarseOf(j) : TRUE
         IN  GatherColumn(CoarseTableOf(inp, t, j), GusTask(t))
    ELSE << >>

RECURSIVE Flatten(_, _)
Flatten(cols, n) ==
    IF n = 0 THEN << >> ELSE Flatten(cols, n - 1) \o cols[n - 1]

\* the rest of the kernel once the fine tasks are done: count the entries of
\* each C(:,j), cumulative sum of C->p, allocate C->i and C->x, compute the
\* vectors of the coarse tasks and gather all vectors into C
KernelFinish ==
    /\ pc = "numeric_fine"
    /\ \A t \in FineIds : ~Remaining(t)
    /\ LET n == bnvecOf(inp)
           cols == [j \in 0 .. n - 1 |-> ColumnEntries(j)]
           flat == Flatten(cols, n)
       IN  /\ cjnz' = [j \in 0 .. n - 1 |->
                          IF TeamsOf(j) # {} THEN Len(cols[j]) ELSE cjnz[j]]
           /\ C' = [p |-> CumSum([j \in 1 .. n |-> cjnz'[j - 1]], n),
                    i |-> [q \in 1 .. Len(flat) |-> flat[q].i],
                    x |-> [q \in 1 .. Len(flat) |-> flat[q].x]]
    /\ info' = "GrB_SUCCESS"
    /\ tiers' = Returns(tiers, info')
    /\ done' = IF kernel = "builtin" THEN DoneAfter(info') ELSE done
    /\ pc' = IF kernel = "builtin" THEN AfterWorker(done') ELSE "after_kernel"
    /\ UNCHANGED aloneVars
    /\ UNCHANGED <<inp, flopVars, partVars, TaskList, mem, Chandle, Htotal,
                   Hteam, pos, mask_applied, kernel, started>>

\* C->i or C->x cannot be allocated: the kernel returns GrB_OUT_OF_MEMORY
KernelOutOfMemory ==
    /\ pc = "numeric_fine"
    /\ \A t \in FineIds : ~Remaining(t)
    /\ info' = "GrB_OUT_OF_MEMORY"
    /\ tiers' = Returns(tiers, info')
    /\ done' = IF kernel = "builtin" THEN DoneAfter(info') ELSE done
    /\ pc' = IF kernel = "builtin" THEN AfterWorker(done') ELSE "after_kernel"
    /\ UNCHANGED aloneVars
    /\ UNCHANGED <<inp, flopVars, partVars, TaskList, mem, Chandle, Htotal,
                   kernVars, mask_applied, kernel, started>>

\* lines 1177-1192
AfterKernel ==
    /\ pc = "after_kernel"
    /\ IF info # "GrB_SUCCESS"
       THEN /\ mem' = GB_FREE_WORK(mem)
            /\ Chandle' = "NULL"
            /\ info' = "GrB_OUT_OF_MEMORY"
            /\ pc' = "done"
       ELSE /\ mem' = GB_FREE_WORK(mem)
            /\ pc' = "prune"
            /\ UNCHANGED <<Chandle, info>>
    /\ UNCHANGED aloneVars
    /\ UNCHANGED <<inp, flopVars, partVars, TaskList, Htotal, kernVars,
                   dispVars, mask_applied, started>>

\* line 570
apply_mask == M # "NULL"

\* lines 1193-1203: GB_hypermatrix_prune succeeds (C is not hypersparse)
Finish ==
    /\ pc = "prune"
    /\ mask_applied' = apply_mask
    /\ pc' = "done"
    /\ UNCHANGED aloneVars
    /\ UNCHANGED <<inp, flopVars, partVars, TaskList, mem, Chandle, Htotal,
                   kernVars, info, dispVars, started>>

\* ------------------------------------------- GB_bitmap_assign_2_whole
JitResults == {"GrB_SUCCESS", "GrB_NO_VALUE", "GrB_OUT_OF_MEMORY"}
\* line 88: if (info != GrB_NO_VALUE) return (info)
JitReturns(i) == i # "GrB_NO_VALUE"

\* lines 82-91: via the JIT or PreJIT kernel
AssignJit ==
    /\ pc = "bitmap_assign"
    /\ \E r \in JitResults :
        /\ tiers' = Append(tiers, Tried("jit", r))
        /\ info' = r
        /\ pc' = IF JitReturns(r) THEN "assign_done" ELSE "assign_generic"
    /\ UNCHANGED aloneVars
    /\ UNCHANGED <<inp, flopVars, partVars, TaskList, mem, Chandle, Htotal,
                   kernVars, done, kernel, mask_applied, started>>

\* lines 93-103: via the generic kernel
AssignGeneric ==
    /\ pc = "assign_generic"
    /\ tiers' = Append(tiers, Tried("generic", "GrB_SUCCESS"))
    /\ info' = "GrB_SUCCESS"
    /\ pc' = "assign_done"
    /\ UNCHANGED aloneVars
    /\ UNCHANGED <<inp, flopVars, partVars, TaskList, mem, Chandle, Htotal,
                   kernVars, done, kernel, mask_applied, started>>

Next ==
    \/ NewC
    \/ FlopCount
    \/ MaskDecision
    \/ Recount
    \/ DetermineThreads
    \/ DetermineTasks
    \/ AllocTasks
    \/ CreateAllTasks
    \/ AllocHash
    \/ Symbolic
    \/ BuiltinWorker
    \/ NoBuiltinWorker
    \/ GenericKernel
    \/ \E t \in 0 .. 15 : FineUpdate(t)
    \/ KernelFinish
    \/ KernelOutOfMemory
    \/ AfterKernel
    \/ Finish
    \/ ErrorReturn
    \/ AssignJit
    \/ AssignGeneric

Spec == Init /\ [][Next]_vars

\* ------------------------------------- GB_hash_table_size on its own
SizerVlen == {9, 200, 4096}
SizerInit ==
    /\ pc = "sizer"
    /\ inp = AssignCall
    /\ sizer \in [flmax : 1 .. MaxFlmax, cvlen : SizerVlen,
                   AxB_method : MethodSet, hash_size : {0}]
    /\ reducer = "idle"
    /\ slicer = "idle" /\ object = "idle" /\ bassign = "idle" /\ ewise = "idle"
    /\ Fresh
\* hash_size = GB_hash_table_size (flmax, cvlen, AxB_method)
SizeTable ==
    /\ pc = "sizer"
    /\ sizer' = [sizer EXCEPT !.hash_size =
                     GB_hash_table_size(sizer.flmax, sizer.cvlen, sizer.AxB_method)]
    /\ pc' = "sized"
    /\ UNCHANGED <<reducer, slicer, object, bassign, ewise>>
    /\ UNCHANGED <<inp, flopVars, partVars, TaskList, mem, Chandle, Htotal,
                   kernVars, info, dispVars, mask_applied, started>>
SizerNext == SizeTable
SpecSizer == SizerInit /\ [][SizerNext]_vars


\* ------------------------------------- a monoid reduction on its own
UINT8_MAX == 255
\* the monoids that src/ does not define: boolean OR (terminal true),
\* MIN over uint8 (terminal 0), and the update of ANY (z = a)
SpecMonoid(monoid, z, a) ==
    CASE monoid = "LOR_BOOL"  -> [z |-> IF z = 1 \/ a = 1 THEN 1 ELSE 0,
                                  terminal |-> z = 1]
      [] monoid = "MIN_UINT8" -> [z |-> GB_IMIN(z, a), terminal |-> z = 0]
      [] monoid = "ANY"       -> [z |-> a, terminal |-> TRUE]
\* GB_UPDATE (z, a): z *= a in int16_t, which wraps around at 16 bits;
\* the MAX monoid of the uint8 semiring is z = GB_IMAX (z, a)
GB_UPDATE(monoid, z, a) ==
    CASE monoid = "TIMES_INT16" -> ((z * a + 32768) % 65536) - 32768
      [] monoid = "MAX_UINT8"   -> GB_IMAX(z, a)
      [] OTHER                  -> SpecMonoid(monoid, z, a).z
\* (variant: every monoid stops at 1)
TerminalAtOne(monoid, z) == z = 1
\* GB_TERMINAL_CONDITION (z, zterminal)
GB_TERMINAL_CONDITION(monoid, z) ==
    CASE monoid = "TIMES_INT16" -> z = 0
      [] monoid = "MAX_UINT8"   -> z = UINT8_MAX
      [] monoid = "ANY"         -> TRUE
      [] OTHER                  -> SpecMonoid(monoid, z, z).terminal
RECURSIVE GB_reduce_to_scalar(_, _, _, _, _)
\* the loop over the entries Ax [p..]: GB_GETA_AND_UPDATE (z, Ax, p), then
\* GB_IF_TERMINAL_BREAK (z, zterminal) unless the early exit is disabled
GB_reduce_to_scalar(monoid, z, Ax, p, early) ==
    IF p > Len(Ax) THEN z
    ELSE LET z1 == GB_UPDATE(monoid, z, Ax[p])
         IN  IF early /\ GB_TERMINAL_CONDITION(monoid, z1) THEN z1
             ELSE GB_reduce_to_scalar(monoid, z1, Ax, p + 1, early)
\* a monoid, the values of its type that are tried, the scalar (*result) on
\* entry and 0 to MaxReduce entries
ReduceInit ==
    /\ pc = "reduce"
    /\ inp = AssignCall
    /\ sizer = "idle"
    /\ slicer = "idle" /\ object = "idle" /\ bassign = "idle" /\ ewise = "idle"
    /\ reducer \in UNION {
           [monoid : {m.monoid}, values : {m.values}, z0 : m.values,
            Ax : UNION {[1 .. n -> m.values] : n \in 0 .. MaxReduce}, z : {0}] :
           m \in {[monoid |-> "TIMES_INT16",
                   values |-> {0, 1, -1, 2, 3, 128, 256, -32768}],
                  [monoid |-> "MAX_UINT8", values |-> {0, 1, 254, UINT8_MAX}],
                  [monoid |-> "LOR_BOOL", values |-> {0, 1}],
                  [monoid |-> "MIN_UINT8", values |-> {0, 1, 2, UINT8_MAX}],
                  [monoid |-> "ANY", values |-> {0, 1, 2}]}}
    /\ Fresh
\* z = (*result) ; the loop ; (*result) = z
ReduceToScalar ==
    /\ pc = "reduce"
    /\ reducer' = [reducer EXCEPT !.z =
                       GB_reduce_to_scalar(reducer.monoid, reducer.z0,
                                           reducer.Ax, 1, TRUE)]
    /\ pc' = "reduced"
    /\ UNCHANGED <<inp, flopVars, partVars, TaskList, mem, Chandle, Htotal,
                   kernVars, info, dispVars, mask_applied, started, sizer,
                   slicer, object, bassign, ewise>>
ReduceNext == ReduceToScalar
SpecReduce == ReduceInit /\ [][ReduceNext]_vars


\* ------------------ the slicing of one costly vector B(:,j) on its own
\* B(:,j) in one of the formats of B, the number of entries of each A(:,k),
\* the workspace Bflops2 as GB_MALLOC returned it (line 712), the team size
SliceInit ==
    /\ pc = "slice_vector"
    /\ inp = AssignCall
    /\ sizer = "idle" /\ reducer = "idle"
    /\ object = "idle" /\ bassign = "idle" /\ ewise = "idle"
    /\ slicer \in {sl \in [format : {"sparse", "bitmap", "full"},
                           aknz : [0 .. MaxSlots - 1 -> {1, 3}],
                           Bb : [0 .. MaxSlots - 1 -> {0, 1}],
                           Bflops2 : [0 .. MaxSlots -> {0, 7}],
                           team_size : 2 .. MaxTeam,
                           Fine_slice : {<< >>}, flops : {<< >>}] :
                    /\ \E k \in 0 .. MaxSlots - 1 : sl.Bb[k] = 1
                    /\ sl.format = "full" => \A k \in 0 .. MaxSlots - 1 : sl.Bb[k] = 1
                    /\ sl.format = "sparse" =>
                          /\ Cardinality({k \in 0 .. MaxSlots - 1 : sl.Bb[k] = 1}) > 1
                          /\ \A s \in 0 .. MaxSlots : sl.Bflops2[s] = 0}
    /\ Fresh
\* lines 780-835: Bflops2 [s] = fl for the entries that are present, GB_cumsum,
\* GB_pslice, and the flops of each fine task; slot s of a sparse B(:,j) is
\* its s-th entry, slot s of a bitmap or full B(:,j) is row s (bjnz = bvlen)
SliceVector ==
    /\ pc = "slice_vector"
    /\ LET rows == IF slicer.format = "sparse"
                   THEN SetToSeq({k \in 0 .. MaxSlots - 1 : slicer.Bb[k] = 1})
                   ELSE [s \in 1 .. MaxSlots |-> s - 1]
           bjnz == Len(rows)
           fl == [s \in 1 .. bjnz |->
                     IF slicer.format = "bitmap" /\ slicer.Bb[rows[s]] = 0
                     THEN slicer.Bflops2[s - 1]
                     ELSE slicer.aknz[rows[s]]]
           cum == CumSum(fl, bjnz)
           Fine_slice == GB_pslice(cum, bjnz, slicer.team_size)
       IN  slicer' = [slicer EXCEPT
               !.Bflops2 = [s \in 0 .. MaxSlots |->
                               IF s <= bjnz THEN At(cum, s) ELSE @[s]],
               !.Fine_slice = Fine_slice,
               !.flops = [n \in 1 .. slicer.team_size |->
                             At(cum, Fine_slice[n]) - At(cum, Fine_slice[n - 1])]]
    /\ pc' = "sliced"
    /\ UNCHANGED <<inp, flopVars, partVars, TaskList, mem, Chandle, Htotal,
                   kernVars, info, dispVars, mask_applied, started, sizer,
                   reducer, object, bassign, ewise>>
SliceNext == SliceVector
SpecSlice == SliceInit /\ [][SliceNext]_vars

\* ------------------------------------------------- GB_object_string_set
\* A C string is the sequence of its characters; strlen is Len.
GxB_MAX_NAME_LEN == 128
MaxName == 2
NameChars == {"[", "m"}
Rep(c, n) == [i \in 1 .. n |-> c]
FirstChar(str) == IF Len(str) = 0 THEN "\\0" ELSE str[1]
strncpy(value, n) == SubSeq(value, 1, GB_IMIN(Len(value), n))
\* the strings handed to the method: the short ones, and names of
\* GxB_MAX_NAME_LEN-1 and GxB_MAX_NAME_LEN characters
ValueSet ==
    UNION {[1 .. k -> NameChars] : k \in 0 .. MaxName}
        \cup {Rep("m", GxB_MAX_NAME_LEN - 1), Rep("m", GxB_MAX_NAME_LEN)}
FieldSet == {"GrB_NAME", "GxB_DEFINITION", "GrB_SIZE"}

\* a hash is the sequence it digests behind a tag: UINT64_MAX is the unset
\* hash, and GB_jitifyer_hash gives it to an object that is not jitable
UINT64_MAX == <<"UINT64_MAX">>
GB_jitifyer_hash(bytes, nbytes, jitable) ==
    IF ~jitable THEN UINT64_MAX ELSE <<"XXH3">> \o SubSeq(bytes, 1, nbytes)

\* the default name of a user-defined object, and the name of a built-in one
unnamed_user == <<"[", "u", "]">>
builtin_name == <<"b">>

\* (variant: the hash is computed at every successful set)
ComputeHashAlways(field, name, defn) == TRUE
\* lines 70 and 91: name and defn as they are after the field is set
ComputeHash(field, name, defn) ==
    IF field = "GrB_NAME" THEN defn # << >> ELSE FirstChar(name) # "["

\* (variant: the name is validated before it is found to be set already)
NameCheckValidFirst(name, value) ==
    IF FirstChar(value) = "[" \/ Len(value) = 0 \/ Len(value) >= GxB_MAX_NAME_LEN
    THEN "GrB_INVALID_VALUE"
    ELSE IF FirstChar(name) # "[" THEN "GrB_ALREADY_SET" ELSE "GrB_SUCCESS"
\* lines 51-62
NameCheck(name, value) ==
    IF FirstChar(name) # "[" THEN "GrB_ALREADY_SET"
    ELSE IF FirstChar(value) = "[" \/ Len(value) = 0
               \/ Len(value) >= GxB_MAX_NAME_LEN
    THEN "GrB_INVALID_VALUE"
    ELSE "GrB_SUCCESS"

\* GB_object_string_set on object o; malloc_ok: GB_MALLOC of the definition
\* succeeds.  defn is << >> (NULL) or <<the copy>>.
GB_object_string_set(o, value, field, malloc_ok) ==
    LET ret(i) == [o EXCEPT !.info = i, !.field = field, !.value = value]
    IN  IF ~o.user_defined THEN ret("GrB_ALREADY_SET")
        ELSE IF field = "GrB_NAME"
        THEN IF NameCheck(o.name, value) # "GrB_SUCCESS"
             THEN ret(NameCheck(o.name, value))
             ELSE LET name == strncpy(value, GxB_MAX_NAME_LEN - 1)
                  IN  [o EXCEPT !.name = name,
                                !.name_len = Len(value),
                                !.hash = IF ComputeHash(field, name, o.defn)
                                         THEN GB_jitifyer_hash(name, Len(value),
                                                               o.jitable)
                                         ELSE @,
                                !.info = "GrB_SUCCESS",
                                !.field = field, !.value = value]
        ELSE IF field = "GxB_DEFINITION"
        THEN IF o.defn # << >> THEN ret("GrB_ALREADY_SET")
             ELSE IF ~malloc_ok
             THEN [ret("GrB_OUT_OF_MEMORY") EXCEPT !.defn_size = 0]
             ELSE [o EXCEPT !.defn = <<value>>,
                            !.defn_size = Len(value) + 1,
                            !.hash = IF ComputeHash(field, o.name, <<value>>)
                                     THEN GB_jitifyer_hash(o.name, o.name_len,
                                                           o.jitable)
                                     ELSE @,
                            !.info = "GrB_SUCCESS",
                            !.field = field, !.value = value]
        ELSE ret("GrB_INVALID_VALUE")

\* a built-in object, or a user-defined one as GrB_*_new leaves it
ObjectInit ==
    /\ pc = "object"
    /\ inp = AssignCall
    /\ sizer = "idle" /\ reducer = "idle" /\ slicer = "idle"
    /\ bassign = "idle" /\ ewise = "idle"
    /\ \E ud \in BOOLEAN, jit \in BOOLEAN :
          object = [user_defined |-> ud, jitable |-> jit,
                    name |-> IF ud THEN unnamed_user ELSE builtin_name,
                    name_len |-> IF ud THEN Len(unnamed_user)
                                 ELSE Len(builtin_name),
                    defn |-> << >>, defn_size |-> 0,
                    hash |-> IF ud THEN UINT64_MAX
                             ELSE GB_jitifyer_hash(builtin_name,
                                                   Len(builtin_name), jit),
                    info |-> "GrB_SUCCESS", field |-> "none", value |-> << >>]
    /\ Fresh
\* one call of GrB_*_set_String on the object
ObjectStringSet ==
    /\ pc = "object"
    /\ \E value \in ValueSet, field \in FieldSet, malloc_ok \in BOOLEAN :
          object' = GB_object_string_set(object, value, field, malloc_ok)
    /\ UNCHANGED <<pc, inp, flopVars, partVars, TaskList, mem, Chandle, Htotal,
                   kernVars, info, dispVars, mask_applied, started, sizer,
                   reducer, slicer, bassign, ewise>>
ObjectNext == ObjectStringSet
SpecObject == ObjectInit /\ [][ObjectNext]_vars

\* ------------------------------- GB_bitmap_assign_notM_noaccum_whole
\* C is a bitmap of MaxCells positions pC; M is sparse: Mb [p] = 1 where M has
\* an entry, of value Mx [p]; A is a scalar, or a matrix that is sparse,
\* bitmap or full, with an entry where Ab [p] = 1, of value AxOf (p).
MaxCells == 2
Cells == 0 .. MaxCells - 1
AxOf(p) == 10 + p
AKinds == {"scalar", "sparse", "bitmap", "full"}

\* GB_MCAST: the mask at an entry of M
MijOf(b, p) == b.Mb[p] = 1 /\ (b.Mask_struct \/ b.Mx[p] # 0)
\* GBB_A (Ab, pC): A has an entry at pC
GBB_A(b, p) == b.Akind = "full" \/ b.Ab[p] = 1

\* One GB_CIJ_WORK or GB_AIJ_WORK on a byte cb of the bitmap:
\* [cb: the byte after, copy: Cx [pC] is written, d: added to task_cnvals]
Work(cb, copy, d) == [cb |-> cb, copy |-> copy, d |-> d]
\* lines 118-144 and 155-180
ScalarWork(cb, aij, C_replace) ==
    CASE cb = 0 -> Work(1, TRUE, 1)
      [] cb = 1 -> Work(1, TRUE, 0)
      [] cb = 2 -> Work(0, FALSE, 0)
      [] cb = 3 -> IF C_replace THEN Work(0, FALSE, -1) ELSE Work(1, FALSE, 0)
      [] OTHER -> Work(cb, FALSE, 0)
\* (variant: an entry of C outside the mask stays when A has none)
BitmapWorkKeeps(cb, aij, C_replace) ==
    CASE cb = 0 -> IF aij THEN Work(1, TRUE, 1) ELSE Work(0, FALSE, 0)
      [] cb = 1 -> IF aij THEN Work(1, TRUE, 0) ELSE Work(1, FALSE, 0)
      [] cb = 2 -> Work(0, FALSE, 0)
      [] cb = 3 -> IF C_replace THEN Work(0, FALSE, -1) ELSE Work(1, FALSE, 0)
      [] OTHER -> Work(cb, FALSE, 0)
\* lines 206-246 and 257-296
BitmapWork(cb, aij, C_replace) ==
    CASE cb = 0 -> IF aij THEN Work(1, TRUE, 1) ELSE Work(0, FALSE, 0)
      [] cb = 1 -> IF aij THEN Work(1, TRUE, 0) ELSE Work(0, FALSE, -1)
      [] cb = 2 -> Work(0, FALSE, 0)
      [] cb = 3 -> IF C_replace THEN Work(0, FALSE, -1) ELSE Work(1, FALSE, 0)
      [] OTHER -> Work(cb, FALSE, 0)
\* lines 310-320, for the entries of A
SparseWork(cb, aij, C_replace) ==
    IF aij /\ cb <= 1 THEN Work(4, TRUE, IF cb = 0 THEN 1 ELSE 0)
    ELSE Work(cb, FALSE, 0)
\* (variant: the pass that clears the mask does not count the entries it
\* deletes under the mask)
ClearWorkMiscount(cb, aij, C_replace) ==
    IF C_replace
    THEN Work(IF cb = 4 THEN 1 ELSE 0, FALSE, IF cb = 1 THEN -1 ELSE 0)
    ELSE Work(IF cb = 4 \/ cb = 3 THEN 1 ELSE 0, FALSE,
              IF cb = 1 THEN -1 ELSE 0)
\* lines 324-345
ClearWork(cb, aij, C_replace) ==
    IF C_replace
    THEN Work(IF cb = 4 THEN 1 ELSE 0, FALSE,
              IF cb = 1 \/ cb = 3 THEN -1 ELSE 0)
    ELSE Work(IF cb = 4 \/ cb = 3 THEN 1 ELSE 0, FALSE,
              IF cb = 1 THEN -1 ELSE 0)

\* GB_bitmap_assign_C_whole_template (every pC of C) and
\* GB_bitmap_assign_A_whole_template (every entry of A): the work w [p] on
\* each position, Cx [pC] = v [p] where it copies, cnvals += the task_cnvals
WholePass(b, w, v) ==
    [b EXCEPT !.Cb = [p \in Cells |-> w[p].cb],
              !.Cx = [p \in Cells |-> IF w[p].copy THEN v[p] ELSE @[p]],
              !.cnvals = @ + SumSeq([n \in 1 .. MaxCells |-> w[n - 1].d])]
\* the bytes, GBB_A and C_replace that the work at each position is given
CellArgs(b) ==
    [p \in Cells |-> [cb |-> b.Cb[p], aij |-> GBB_A(b, p), repl |-> b.C_replace]]

\* the calls: C is a valid bitmap (bytes 0 or 1, nvals the number of ones)
NotMInit ==
    /\ pc = "notM_scatter"
    /\ inp = AssignCall
    /\ sizer = "idle" /\ reducer = "idle" /\ slicer = "idle"
    /\ object = "idle" /\ ewise = "idle"
    /\ \E Cb0 \in [Cells -> {0, 1}], Mb \in [Cells -> {0, 1}],
          Mx \in [Cells -> {0, 1}], Ab \in [Cells -> {0, 1}],
          kind \in AKinds, repl \in BOOLEAN, struct \in BOOLEAN :
          /\ \A p \in Cells : Mb[p] = 0 \/ struct => Mx[p] = 1
          /\ kind \in {"scalar", "full"} => \A p \in Cells : Ab[p] = 1
          /\ bassign = [C_replace |-> repl, Mask_struct |-> struct,
                        Mb |-> Mb, Mx |-> Mx, Akind |-> kind, Ab |-> Ab,
                        scalar |-> 2, Cb0 |-> Cb0, Cb |-> Cb0,
                        Cx |-> [p \in Cells |-> 7],
                        nvals |-> Cardinality({p \in Cells : Cb0[p] = 1}),
                        cnvals |-> Cardinality({p \in Cells : Cb0[p] = 1})]
    /\ Fresh

NotMUnchanged ==
    UNCHANGED <<inp, flopVars, partVars, TaskList, mem, Chandle, Htotal,
                kernVars, info, dispVars, mask_applied, started, sizer,
                reducer, slicer, object, ewise>>

\* lines 91-98: Cb [pC] += 2 for each entry M(i,j) in the mask
NotMScatter ==
    /\ pc = "notM_scatter"
    /\ bassign' = [bassign EXCEPT !.Cb =
           [p \in Cells |-> IF MijOf(bassign, p) THEN @[p] + 2 ELSE @[p]]]
    /\ pc' = CASE bassign.Akind = "scalar" -> "notM_scalar"
               [] bassign.Akind \in {"bitmap", "full"} -> "notM_full"
               [] OTHER -> "notM_sparse"
    /\ NotMUnchanged

\* lines 104-184
NotMScalar ==
    /\ pc = "notM_scalar"
    /\ bassign' = WholePass(bassign,
           [p \in Cells |-> LET a == CellArgs(bassign)[p]
                            IN  ScalarWork(a.cb, a.aij, a.repl)],
           [p \in Cells |-> bassign.scalar])
    /\ pc' = "notM_return"
    /\ NotMUnchanged

\* lines 192-300
NotMFull ==
    /\ pc = "notM_full"
    /\ bassign' = WholePass(bassign,
           [p \in Cells |-> LET a == CellArgs(bassign)[p]
                            IN  BitmapWork(a.cb, a.aij, a.repl)],
           [p \in Cells |-> AxOf(p)])
    /\ pc' = "notM_return"
    /\ NotMUnchanged

\* lines 308-321
NotMSparse ==
    /\ pc = "notM_sparse"
    /\ bassign' = WholePass(bassign,
           [p \in Cells |-> LET a == CellArgs(bassign)[p]
                            IN  SparseWork(a.cb, a.aij, a.repl)],
           [p \in Cells |-> AxOf(p)])
    /\ pc' = "notM_clear"
    /\ NotMUnchanged

\* lines 323-345
NotMClear ==
    /\ pc = "notM_clear"
    /\ bassign' = WholePass(bassign,
           [p \in Cells |-> LET a == CellArgs(bassign)[p]
                            IN  ClearWork(a.cb, a.aij, a.repl)],
           [p \in Cells |-> AxOf(p)])
    /\ pc' = "notM_return"
    /\ NotMUnchanged

\* lines 353-356
NotMReturn ==
    /\ pc = "notM_return"
    /\ bassign' = [bassign EXCEPT !.nvals = bassign.cnvals]
    /\ pc' = "notM_done"
    /\ NotMUnchanged

NotMNext ==
    \/ NotMScatter
    \/ NotMScalar
    \/ NotMFull
    \/ NotMSparse
    \/ NotMClear
    \/ NotMReturn
SpecNotM == NotMInit /\ [][NotMNext]_vars

\* --------------------------- GB_mex_test37: index binary op, JIT on and off
\* A matrix is held by column or by row: x maps <<k, p>>, entry p of vector
\* k, to its value; entry (i,j) is <<j, i>> by column and <<i, j>> by row.
MaxDim == 3
MaxNnz == 3
Dim == 0 .. MaxDim - 1
RowOf(by_col, kp) == IF by_col THEN kp[2] ELSE kp[1]
ColOf(by_col, kp) == IF by_col THEN kp[1] ELSE kp[2]
\* (i,j) -> value of a held matrix, and back
Logical(S) ==
    [ij \in {<<RowOf(S.by_col, kp), ColOf(S.by_col, kp)>> : kp \in DOMAIN S.x}
        |-> S.x[IF S.by_col THEN <<ij[2], ij[1]>> ELSE ij]]
Store(by_col, L) ==
    [by_col |-> by_col,
     x |-> [kp \in {IF by_col THEN <<ij[2], ij[1]>> ELSE ij : ij \in DOMAIN L}
              |-> L[<<RowOf(by_col, kp), ColOf(by_col, kp)>>]]]
\* GrB_Matrix_set_INT32 (A, GrB_ROWMAJOR or GrB_COLMAJOR, ...)
SetOrientation(S, by_col) == Store(by_col, Logical(S))
\* the input transposed by the descriptor (GrB_DESC_T1), held as S is
Transposed(S) ==
    Store(S.by_col, [ij \in {<<q[2], q[1]>> : q \in DOMAIN Logical(S)}
                       |-> Logical(S)[<<ij[2], ij[1]>>]])

\* (variant: the definition handed to the JIT weighs iy and jy the other way)
IdxbinopOtherWeights(x, ix, jx, y, iy, jy, theta) ==
    x + 2 * y - 42 * ix + jx + 1000 * iy + 3 * jy - theta
\* lines 44-51: the definition string that the JIT compiles
TEST37_IDXBINOP(x, ix, jx, y, iy, jy, theta) ==
    x + 2 * y - 42 * ix + jx + 3 * iy + 1000 * jy - theta
\* lines 36-42: the function pointer that the generic kernel calls
test37_idxbinop(x, ix, jx, y, iy, jy, theta) ==
    x + 2 * y - 42 * ix + jx + 3 * iy + 1000 * jy - theta

\* the operator as the tier applies it
ApplyIdxOp(tier, x, y, i, j, theta) ==
    IF tier = "jit" THEN TEST37_IDXBINOP(x, i, j, y, i, j, theta)
    ELSE test37_idxbinop(x, i, j, y, i, j, theta)

\* the element-wise kernel on two matrices held the same way: the union of
\* the patterns, vector by vector; the operator is handed the row and column
\* of the entry (swapped back when the vectors are rows); an entry in one
\* matrix only is copied (eWiseAdd) or paired with alpha or beta (eWiseUnion)
GB_add(tier, SA, SB, is_union, alpha, beta, theta) ==
    [by_col |-> SA.by_col,
     x |-> [kp \in DOMAIN SA.x \cup DOMAIN SB.x |->
              LET i == RowOf(SA.by_col, kp)
                  j == ColOf(SA.by_col, kp)
              IN  IF kp \in DOMAIN SA.x /\ kp \in DOMAIN SB.x
                  THEN ApplyIdxOp(tier, SA.x[kp], SB.x[kp], i, j, theta)
                  ELSE IF kp \in DOMAIN SA.x
                  THEN IF is_union
                       THEN ApplyIdxOp(tier, SA.x[kp], beta, i, j, theta)
                       ELSE SA.x[kp]
                  ELSE IF is_union
                       THEN ApplyIdxOp(tier, alpha, SB.x[kp], i, j, theta)
                       ELSE SB.x[kp]]]

\* GB_binop_builtin: a user-defined operator has no built-in kernel, so the
\* tiers are the JIT kernel and the generic kernel
EwiseTiers(jit_on) == IF jit_on THEN {"jit", "generic"} ELSE {"generic"}

\* lines 78-116: A (of at most MaxNnz entries), Theta, Alpha, Beta; all
\* matrices are held by column
EwiseInit ==
    /\ pc = "ewise_add1"
    /\ inp = AssignCall
    /\ sizer = "idle" /\ reducer = "idle" /\ slicer = "idle"
    /\ object = "idle" /\ bassign = "idle"
    /\ \E pat \in {q \in SUBSET (Dim \X Dim) : Cardinality(q) <= MaxNnz},
          theta \in {0, 5} :
          LET empty == Store(TRUE, [ij \in {} |-> 0])
          IN  ewise = [A |-> Store(TRUE, [ij \in pat |-> 1 + ij[1] + 2 * ij[2]]),
                       Theta |-> theta, Alpha |-> 3, Beta |-> 42,
                       jit_on |-> TRUE, used |-> << >>,
                       C1 |-> empty, B1 |-> empty, C2 |-> empty, B2 |-> empty]
    /\ Fresh

EwiseUnchanged ==
    UNCHANGED <<inp, flopVars, partVars, TaskList, mem, Chandle, Htotal,
                kernVars, info, dispVars, mask_applied, started, sizer,
                reducer, slicer, object, bassign>>

\* C = A + A' or the union, by the tier that runs; the JIT kernel may not be
\* available (GrB_NO_VALUE), and the generic kernel then does the work
EwiseCall(is_union, tier) ==
    GB_add(tier, ewise.A, Transposed(ewise.A), is_union,
           ewise.Alpha, ewise.Beta, ewise.Theta)

\* lines 120-121
EwiseAdd1 ==
    /\ pc = "ewise_add1"
    /\ \E tier \in EwiseTiers(ewise.jit_on) :
          ewise' = [ewise EXCEPT !.C1 = EwiseCall(FALSE, tier),
                                 !.used = Append(@, tier)]
    /\ pc' = "ewise_union1"
    /\ EwiseUnchanged
\* lines 122-123
EwiseUnion1 ==
    /\ pc = "ewise_union1"
    /\ \E tier \in EwiseTiers(ewise.jit_on) :
          ewise' = [ewise EXCEPT !.B1 = EwiseCall(TRUE, tier),
                                 !.used = Append(@, tier)]
    /\ pc' = "ewise_jit_off"
    /\ EwiseUnchanged
\* lines 125-131: turn off the JIT; A, C2 and B2 are held by row
EwiseJitOff ==
    /\ pc = "ewise_jit_off"
    /\ ewise' = [ewise EXCEPT !.jit_on = FALSE,
                              !.A = SetOrientation(@, FALSE),
                              !.C2 = SetOrientation(@, FALSE),
                              !.B2 = SetOrientation(@, FALSE)]
    /\ pc' = "ewise_add2"
    /\ EwiseUnchanged
\* lines 134-135
EwiseAdd2 ==
    /\ pc = "ewise_add2"
    /\ \E tier \in EwiseTiers(ewise.jit_on) :
          ewise' = [ewise EXCEPT !.C2 = EwiseCall(FALSE, tier),
                                 !.used = Append(@, tier)]
    /\ pc' = "ewise_union2"
    /\ EwiseUnchanged
\* lines 136-137
EwiseUnion2 ==
    /\ pc = "ewise_union2"
    /\ \E tier \in EwiseTiers(ewise.jit_on) :
          ewise' = [ewise EXCEPT !.B2 = EwiseCall(TRUE, tier),
                                 !.used = Append(@, tier)]
    /\ pc' = "ewise_colmajor"
    /\ EwiseUnchanged
\* lines 145-146: C2 and B2 are held by column again
EwiseColMajor ==
    /\ pc = "ewise_colmajor"
    /\ ewise' = [ewise EXCEPT !.C2 = SetOrientation(@, TRUE),
                              !.B2 = SetOrientation(@, TRUE)]
    /\ pc' = "ewise_check"
    /\ EwiseUnchanged

EwiseNext ==
    \/ EwiseAdd1
    \/ EwiseUnion1
    \/ EwiseJitOff
    \/ EwiseAdd2
    \/ EwiseUnion2
    \/ EwiseColMajor
SpecEwise == EwiseInit /\ [][EwiseNext]_vars

\* ------------------ the partitioner on matrices B of 0 to MaxVectors
\* vectors, without a mask: the call up to the end of the task creation
TaskInputs ==
    { [avlen |-> 9, A |-> [i \in InnerSet |-> IF i = 0 THEN {0, 4, 8} ELSE {4}],
       bvdim |-> n, B |-> b, Mkind |-> "none",
       Mask_comp |-> FALSE, Mask_struct |-> "unread", AxB_method |-> "unread",
       nthreads_max |-> 0, chunk |-> 0, semiring |-> "unread",
       GBCOMPACT |-> "unread"] :
        n \in 0 .. MaxVectors,
        b \in {f \in [0 .. MaxVectors - 1 -> BColPool] :
                 SumSeq([k \in 1 .. MaxVectors |-> Cardinality(f[k - 1])])
                     <= MaxEntries} }
TasksInit ==
    /\ pc = "start"
    /\ inp \in {in \in TaskInputs :
                  \A k \in 0 .. MaxVectors - 1 :
                      k >= in.bvdim => in.B[k] = {}}
    /\ sizer = "idle"
    /\ reducer = "idle"
    /\ slicer = "idle" /\ object = "idle" /\ bassign = "idle" /\ ewise = "idle"
    /\ Fresh
TasksNext ==
    \/ NewC
    \/ FlopCount
    \/ MaskDecision
    \/ DetermineThreads
    \/ DetermineTasks
    \/ AllocTasks
    \/ CreateAllTasks
SpecTasks == TasksInit /\ [][TasksNext]_vars


\* ======================================================= reference product
\* the naive triple loop: C(i,j) is present when some k has A(i,k) and B(k,j),
\* and is the monoid sum of A(i,k)*B(k,j) over those k
RefRows(in, j) == UNION {in.A[k] : k \in in.B[j]}
RefVal(in, i, j) ==
    LET ks == SetToSeq({k \in in.B[j] : i \in in.A[k]})
    IN  IF in.semiring = "ANY_PAIR" THEN 1
        ELSE SumSeq([n \in 1 .. Len(ks) |-> Aval(i, ks[n]) * Bval(ks[n], j)])
\* the mask as the caller means it: structural or valued
MaskTrue(in, i, j) ==
    /\ i \in MRows(in, j)
    /\ (in.Mask_struct = FALSE => Mval(in, i, j) # 0)
\* keep == "all", "M" or "notM"
RefColumn(in, j, keep) ==
    LET rows == {i \in RefRows(in, j) :
                    \/ keep = "all"
                    \/ keep = "M" /\ MaskTrue(in, i, j)
                    \/ keep = "notM" /\ ~MaskTrue(in, i, j)}
        rs == SetToSeq(rows)
    IN  [n \in 1 .. Len(rs) |-> [i |-> rs[n], x |-> RefVal(in, rs[n], j)]]
RefC(in, keep) ==
    LET n == in.bvdim
        cols == [j \in 0 .. n - 1 |-> RefColumn(in, j, keep)]
        flat == Flatten(cols, n)
    IN  [p |-> CumSum([j \in 1 .. n |-> Len(cols[j - 1])], n),
         i |-> [q \in 1 .. Len(flat) |-> flat[q].i],
         x |-> [q \in 1 .. Len(flat) |-> flat[q].x]]

Returned == pc = "done"
Succeeded == Returned /\ info = "GrB_SUCCESS"
HashTasks == {t \in DOMAIN TaskList : TaskList[t].hsize # cvlenOf(inp)}

\* ------------------------------------------------------------------ C1
\* C1: with no mask, the matrix C that GB_AxB_saxpy3 returns is the reference
\* product A*B (an entry exactly where some k has A(i,k) and B(k,j), valued
\* by the monoid sum over those k), whatever tasks the partitioner made.
C1_UnmaskedProduct ==
    (Succeeded /\ inp.Mkind = "none") => C = RefC(inp, "all")

\* an unmasked product computed by a fine team and a coarse task, with a
\* hash table among them
C1_Witness ==
    /\ Succeeded
    /\ inp.Mkind = "none"
    /\ nfine >= 2
    /\ ncoarse >= 1
    /\ HashTasks # {}
    /\ Len(C.i) >= 4

\* ------------------------------------------------------------------ C2
\* C2: when the mask is applied, C<M>=A*B is A*B at the positions where M is
\* true and C<!M>=A*B is A*B at the other positions; M(i,j) is true when the
\* entry is present (structural mask) or present and nonzero (valued mask),
\* so the two readings differ exactly at the present zeros of M.
C2_MaskingLaws ==
    /\ (Succeeded /\ mask_applied) =>
           C = RefC(inp, IF inp.Mask_comp THEN "notM" ELSE "M")
    /\ \A j \in 0 .. inp.bvdim - 1, i \in 0 .. 8 :
           (MaskTrue([inp EXCEPT !.Mask_struct = TRUE], i, j)
              # MaskTrue([inp EXCEPT !.Mask_struct = FALSE], i, j))
           <=> (i \in MRows(inp, j) /\ Mval(inp, i, j) = 0)

\* a valued mask applied with a present zero where A*B has an entry
C2_Witness ==
    /\ Succeeded
    /\ mask_applied
    /\ inp.Mask_struct = FALSE
    /\ \E j \in 0 .. inp.bvdim - 1 : \E i \in RefRows(inp, j) :
           i \in MRows(inp, j) /\ Mval(inp, i, j) = 0
    /\ C # RefC([inp EXCEPT !.Mask_struct = TRUE],
                IF inp.Mask_comp THEN "notM" ELSE "M")

\* ------------------------------------------------------------------ C3
\* the cost test, from the inputs: the mask is not dense with a default
\* method, and the flops of A*B are below 0.01 times the work to scan M
Discarded(in) ==
    LET r == GB_AxB_saxpy3_flopcount(in, TRUE, in.Mask_comp)
        total == At(r.Bflops, in.bvdim)
    IN  /\ in.Mkind # "none"
        /\ ~(GB_is_packed(in) /\ in.AxB_method = "GxB_DEFAULT")
        /\ (total - r.Mwork) * 100 < r.Mwork

\* C3: on a successful return mask_applied is true exactly when a mask was
\* given and the cost test did not discard it; when it is discarded the flop
\* estimate is the one without the mask, the complement flag is dropped, C is
\* the unmasked product and mask_applied is false.
C3_MaskApplied ==
    Succeeded =>
        /\ mask_applied = (inp.Mkind # "none" /\ ~Discarded(inp))
        /\ Discarded(inp) =>
              /\ M = "NULL"
              /\ ~Mask_comp
              /\ Bflops = GB_AxB_saxpy3_flopcount(inp, FALSE, FALSE).Bflops
              /\ C = RefC(inp, "all")
              /\ ~mask_applied

\* a complemented mask that is discarded while A*B has an entry
C3_Witness ==
    /\ Succeeded
    /\ Discarded(inp)
    /\ inp.Mask_comp
    /\ Len(C.i) >= 1
    /\ C # RefC(inp, "notM")

\* ------------------------------------------------------------------ C4
\* C(:,j) as one coarse task computes it with the table that AxB_method m
\* selects for the flop bound of the vector
ColumnBy(m, j) ==
    LET flmax == GB_IMAX(1, At(Bflops, j + 1) - At(Bflops, j))
        hs == GB_hash_table_size(flmax, cvlenOf(inp), m)
        gus == hs = cvlenOf(inp)
    IN  GatherColumn(CoarseTable(inp, MaskArgs.Mpresent, MaskArgs.comp, j, hs,
                                 gus), gus)
\* C(:,j) of the matrix returned
ColumnOfC(j) ==
    [n \in 1 .. (C.p[j + 2] - C.p[j + 1]) |->
        [i |-> C.i[C.p[j + 1] + n], x |-> C.x[C.p[j + 1] + n]]]

TeamOf(l) == {t \in FineIds : TaskList[t].leader = l}
TeamDone(l) ==
    /\ pc \in {"numeric_fine", "after_kernel", "generic", "prune", "done"}
    /\ "numeric" \in started
    /\ \A t \in TeamOf(l) : ~Remaining(t)
KeepNow == IF ~MaskArgs.Mpresent THEN "all"
           ELSE IF MaskArgs.comp THEN "notM" ELSE "M"

\* C5: when a team of two or more fine tasks has added all its products into
\* its shared table by atomic updates, the entries of C(:,j) held in the table
\* are the same whatever the order of the updates was: they are the entries
\* of the reference product.
C5_TeamOrderIndependent ==
    \A l \in FineLeaders :
        (Cardinality(TeamOf(l)) >= 2 /\ TeamDone(l)) =>
            GatherColumn(Hteam[l], GusTask(l))
                = RefColumn(inp, TaskList[l].vector, KeepNow)

\* a team of two whose members both added to the same entry of a hash table
C5_Witness ==
    \E l \in FineLeaders :
        /\ Cardinality(TeamOf(l)) >= 2
        /\ TeamDone(l)
        /\ ~GusTask(l)
        /\ inp.semiring = "PLUS_TIMES"
        /\ Cardinality({t \in TeamOf(l) : \E n \in 1 .. Len(TaskTerms(t)) :
                            TaskTerms(t)[n].i = 4}) >= 2
        /\ \E s \in DOMAIN Hteam[l] :
               Hteam[l][s].i = 4 /\ Hteam[l][s].f = "val"

\* ------------------------------------------------------------------ C6
\* C6: in the C returned on success the vector pointers start at 0, do not
\* decrease and end at the number of entries, and the row indices of each
\* vector ascend strictly, for every task list and every method.
C6_SortedOutput ==
    Succeeded =>
        /\ Len(C.p) = inp.bvdim + 1
        /\ C.p[1] = 0
        /\ C.p[inp.bvdim + 1] = Len(C.i)
        /\ Len(C.x) = Len(C.i)
        /\ \A j \in 1 .. inp.bvdim : C.p[j] <= C.p[j + 1]
        /\ \A j \in 1 .. inp.bvdim : \A q \in (C.p[j] + 1) .. (C.p[j + 1] - 1) :
               C.i[q] < C.i[q + 1]

\* a vector of three entries gathered from a hash table whose slot order is
\* not the row order, next to another task
C6_Witness ==
    /\ Succeeded
    /\ ntasks >= 2
    /\ \E t \in HashTasks :
          /\ t >= nfine
          /\ \E j \in TaskList[t].start .. TaskList[t].end :
                LET tab == CoarseTableOf(inp, t, j)
                IN  /\ Len(SlotOrder(tab)) >= 3
                    /\ SlotOrder(tab) # SortByRow(SlotOrder(tab))

\* ------------------------------------------------------------------ C7
TierRank(name) == CASE name = "jit" -> 0 [] name = "builtin" -> 1 [] OTHER -> 2
TierNames == {tiers[n].tier : n \in DOMAIN tiers}
\* the kernels have been tried and the caller decides what to return
DispatchOver ==
    \/ pc \in {"after_kernel", "prune", "assign_done"}
    \/ pc = "done" /\ tiers # << >>

\* C7: the built-in kernel is tried only for a built-in semiring and before
\* the generic kernel; the tiers are tried in one direction, each at most
\* once; once the dispatch is over the generic kernel has run exactly when
\* every tier before it returned GrB_NO_VALUE or was not tried; and
\* GrB_NO_VALUE is never what the caller gets, from GB_AxB_saxpy3 or from
\* GB_bitmap_assign_2_whole.
C7_Dispatch ==
    /\ \A n \in DOMAIN tiers :
          tiers[n].tier = "builtin" => n = 1 /\ builtin_semiring(inp)
    /\ \A n \in DOMAIN tiers : \A k \in DOMAIN tiers :
          n < k => TierRank(tiers[n].tier) < TierRank(tiers[k].tier)
    /\ DispatchOver =>
          ("generic" \in TierNames
             <=> \A n \in DOMAIN tiers :
                    tiers[n].tier # "generic" => tiers[n].info = "GrB_NO_VALUE")
    /\ pc \in {"done", "assign_done"} => info # "GrB_NO_VALUE"

\* the built-in worker was disabled and the generic kernel computed C
C7_Witness ==
    /\ Succeeded
    /\ Len(tiers) = 2
    /\ tiers[1] = Tried("builtin", "GrB_NO_VALUE")
    /\ tiers[2] = Tried("generic", "GrB_SUCCESS")
    /\ Len(C.i) >= 1

\* ------------------------------------------------------------------ C8
\* C8: on every error return no partial result is returned: *Chandle is NULL
\* and the task list, the hash buffers and the task-construction workspace are
\* freed; on a successful return all that workspace is freed and C remains.
C8_NothingLeftBehind ==
    /\ (Returned /\ info # "GrB_SUCCESS") => (Chandle = "NULL" /\ mem = {})
    /\ Succeeded => (Chandle = "C" /\ mem = {})

\* the numeric kernel ran out of memory with the hash tables allocated
C8_Witness ==
    /\ Returned
    /\ info = "GrB_OUT_OF_MEMORY"
    /\ "numeric" \in started
    /\ Htotal.Hf > 0
    /\ Chandle = "NULL"
    /\ mem = {}

\* ------------------------------------------------------------------ C9
\* C9 as stated: an out-of-memory failure is only detected before any
\* parallel work (task construction, symbolic phase, numeric phase) has begun.
C9_AllUpFront ==
    (Returned /\ info = "GrB_OUT_OF_MEMORY") => started = {}

\* C9, amended: allocation happens between the parallel phases. An
\* out-of-memory failure is detected before any parallel work, or after the
\* parallel task construction and before the symbolic phase (the hash
\* tables), or after the numeric phase has begun (C->i and C->x in the
\* kernel, pruning); never between the start of the symbolic phase and the
\* start of the numeric phase.
C9_BetweenPhases ==
    (Returned /\ info = "GrB_OUT_OF_MEMORY") =>
        started \in {{}, {"tasks"}, {"tasks", "symbolic", "numeric"}}

\* the hash tables could not be allocated after the tasks were constructed
C9_Witness ==
    /\ Returned
    /\ info = "GrB_OUT_OF_MEMORY"
    /\ started = {"tasks"}
    /\ ntasks >= 2
    /\ tiers = << >>

\* ----------------------------------------------------------------- C10
RECURSIVE Pow2AtLeast(_)
\* the smallest power of 2 that is >= n
Pow2AtLeast(n) == IF n <= 1 THEN 1 ELSE 2 * Pow2AtLeast((n + 1) \div 2)
RECURSIVE Pow2Above(_)
\* the smallest power of 2 that is > n
Pow2Above(n) == IF n < 1 THEN 1 ELSE 2 * Pow2Above(n \div 2)
HashSelected == pc = "sized" /\ sizer.hash_size # sizer.cvlen

GustavsonRule(flmax, cvlen, method) ==
    \/ method = "GxB_AxB_GUSTAVSON"
    \/ method = "GxB_AxB_HASH" /\ 2 * Pow2Above(flmax) >= cvlen
    \/ method = "GxB_DEFAULT" /\ 2 * Pow2Above(flmax) >= cvlen \div 16

\* C11: GB_hash_table_size returns cvlen exactly when the method is
\* Gustavson, or it is Hash and the computed size is >= cvlen, or it is the
\* default and the computed size is >= cvlen/16; otherwise it returns the
\* computed power of 2, which is then strictly smaller than cvlen.
C11_GustavsonRule ==
    pc = "sized" =>
        /\ (sizer.hash_size = sizer.cvlen
              <=> GustavsonRule(sizer.flmax, sizer.cvlen, sizer.AxB_method))
        /\ (~GustavsonRule(sizer.flmax, sizer.cvlen, sizer.AxB_method) =>
              /\ sizer.hash_size = 2 * Pow2Above(sizer.flmax)
              /\ sizer.hash_size < sizer.cvlen)

\* the default method picks Gustavson for a table that is smaller than cvlen
\* but not smaller than cvlen/16
C11_Witness ==
    /\ pc = "sized"
    /\ sizer.AxB_method = "GxB_DEFAULT"
    /\ sizer.hash_size = sizer.cvlen
    /\ 2 * Pow2Above(sizer.flmax) < sizer.cvlen

\* ----------------------------------------------------------------- C12
\* the flop bounds handed to GB_hash_table_size while the tasks are created
SizerCalls ==
    CreateTasks(inp, Bflops, TargetsNow, AxB_method, Coarse_initial, nfine,
                ntasks).sized
Leaders == {t \in DOMAIN TaskList : IsLeader(TaskList, t)}

\* C12: for every task created (coarse tasks, fine teams, the single task)
\* the flop bound given to GB_hash_table_size is at least 1, so log2 is never
\* taken of 0 or of a negative number; one call is made per coarse task and
\* per fine team.
C12_Log2Defined ==
    pc = "alloc_hash" =>
        /\ \A n \in 1 .. Len(SizerCalls) : SizerCalls[n] >= 1
        /\ Len(SizerCalls) = Cardinality(Leaders)

\* a coarse task of vectors without flops next to a fine team
C12_Witness ==
    /\ pc = "alloc_hash"
    /\ \E t \in DOMAIN TaskList :
          ~IsFine(TaskList, t) /\ TaskList[t].flops = 0
    /\ nfine >= 2
    /\ \E n \in 1 .. Len(SizerCalls) : SizerCalls[n] = 1

\* ----------------------------------------------------------------- C13
HashLeaders == {t \in Leaders : TaskList[t].hsize # cvlenOf(inp)}
\* the vectors of C a task computes, and the largest flop bound among them
VectorsOf(t) ==
    IF IsFine(TaskList, t) THEN {TaskList[t].vector}
    ELSE TaskList[t].start .. TaskList[t].end
ColBound(t) ==
    LET fl == {At(Bflops, k + 1) - At(Bflops, k) : k \in VectorsOf(t)}
    IN  IF fl = {} THEN 0 ELSE CHOOSE m \in fl : \A x \in fl : x <= m
IsPow2(n) == \E e \in 0 .. 20 : n = Pow2(e)
Occupied(tab) == Cardinality(DOMAIN tab \ {-1})

CostlyColumn(k) ==
    LET jflops == At(Bflops, k + 1) - At(Bflops, k)
    IN  /\ 10 * jflops * ntasks_initial > 12 * total_flops
        /\ 10 * jflops > 12 * inp.chunk
        /\ bjnzOf(inp, k) > 1
\* the initial tasks that are split: not empty, more than 2.4 target_task_size
SplitChunks ==
    {c \in (IF ntasks_initial > 1 /\ Coarse_initial # << >>
            THEN 0 .. ntasks_initial - 1 ELSE {}) :
        LET fl == At(Bflops, Coarse_initial[c + 1]) - At(Bflops, Coarse_initial[c])
        IN  /\ Coarse_initial[c] < Coarse_initial[c + 1]
            /\ 10 * fl * ntasks_initial > 24 * total_flops
            /\ 10 * fl > 24 * inp.chunk}

C16_AllCoarseNonEmpty ==
    "tasks" \in started => \A t \in CoarseIds : TaskList[t].start <= TaskList[t].end

\* C16 (amended): with more than one initial task the empty initial tasks
\* are skipped and every coarse task covers at least one vector; the single
\* task of a call with one initial task is coarse with start = 0 and
\* end = bnvec-1, which is empty (end = -1) exactly when B has no vectors.
C16_CoarseNonEmpty ==
    "tasks" \in started =>
        \A t \in CoarseIds :
            IF ntasks_initial > 1
            THEN TaskList[t].start <= TaskList[t].end
            ELSE /\ TaskList[t].start = 0
                 /\ TaskList[t].end = bnvecOf(inp) - 1
                 /\ (TaskList[t].start > TaskList[t].end <=> bnvecOf(inp) = 0)

\* an empty initial task was skipped and coarse tasks were created
C16_Witness ==
    /\ pc = "alloc_hash"
    /\ ntasks_initial > 1
    /\ \E c \in 0 .. ntasks_initial - 1 : Coarse_initial[c] = Coarse_initial[c + 1]
    /\ CoarseIds # {}
    /\ ntasks < ntasks_initial

\* C17: after the task creation every vector k of 0..bnvec-1 has exactly one
\* owner: it lies in the range start..end of exactly one coarse task, or it
\* is the vector of exactly one team of fine tasks, never both; the coarse
\* ranges lie in 0..bnvec-1 and are pairwise disjoint, and the fine tasks of
\* a vector are the members leader..leader+team_size-1 of its one team.
C17_OneOwner ==
    "tasks" \in started =>
        /\ \A k \in 0 .. bnvecOf(inp) - 1 :
              LET cover == {t \in CoarseIds :
                               TaskList[t].start <= k /\ k <= TaskList[t].end}
              IN  /\ Cardinality(cover) + Cardinality(TeamsOf(k)) = 1
                  /\ \A l \in TeamsOf(k) :
                        {t \in FineIds : TaskList[t].vector = k}
                            = l .. l + TaskList[l].team_size - 1
        /\ \A t \in CoarseIds :
              /\ 0 <= TaskList[t].start
              /\ TaskList[t].end <= bnvecOf(inp) - 1
              /\ \A u \in CoarseIds \ {t} :
                    \/ TaskList[t].end < TaskList[u].start
                    \/ TaskList[u].end < TaskList[t].start
        /\ \A t \in FineIds : TaskList[t].vector \in 0 .. bnvecOf(inp) - 1

\* a task list with a team of fine tasks and two coarse tasks
C17_Witness ==
    /\ pc = "alloc_hash"
    /\ \E l \in FineLeaders : TaskList[l].team_size >= 2
    /\ Cardinality(CoarseIds) >= 2

\* The workspace of each kind of task when Hx is left out exactly under
\* no_hx: the space of a leader is the gap between its pointer and the next
\* leader's, so each pointer is the sum of the spaces of the leaders before.
WorkspaceRule(no_hx) ==
    LET lead == {t \in DOMAIN TaskList : TaskList[t].leader = t}
        coarse_hash(t) == TaskList[t].vector < 0 /\ ~GusTask(t)
        fine_gus(t) == TaskList[t].vector >= 0 /\ GusTask(t)
        hi(t) == IF coarse_hash(t) THEN TaskList[t].hsize + hi_pad ELSE 0
        hf(t) == IF fine_gus(t)
                 THEN GB_ICEIL(TaskList[t].hsize + hi_pad, sizeof_int64)
                 ELSE TaskList[t].hsize + hi_pad
        hx(t) == IF no_hx THEN 0 ELSE TaskList[t].hsize * csizeOf(inp) + hx_pad
        Total(S, f(_)) == LET q == SetToSeq(S)
                          IN  SumSeq([n \in 1 .. Len(q) |-> f(q[n])])
    IN  /\ Htotal = [Hi |-> Total(lead, hi), Hf |-> Total(lead, hf),
                     Hx |-> Total(lead, hx)]
        /\ \A t \in lead :
              LET before == {u \in lead : u < t}
              IN  /\ TaskList[t].Hi = Ptr(Htotal.Hi, Total(before, hi))
                  /\ TaskList[t].Hf = Ptr(Htotal.Hf, Total(before, hf))
                  /\ TaskList[t].Hx = Ptr(Htotal.Hx, Total(before, hx))
                  /\ TaskList[t].Hf # << >>
                  /\ 8 * hf(t) >= TaskList[t].hsize
        /\ no_hx => /\ "Hx_all" \notin mem
                    /\ \A t \in DOMAIN TaskList : TaskList[t].Hx = << >>
        /\ (~no_hx /\ lead # {}) => "Hx_all" \in mem
        /\ "Hi_all" \in mem <=> \E t \in lead : coarse_hash(t)
        /\ \A t \in DOMAIN TaskList \ lead :
              /\ TaskList[t].vector >= 0
              /\ TaskList[t].Hf = TaskList[TaskList[t].leader].Hf
              /\ TaskList[t].Hx = TaskList[TaskList[t].leader].Hx
              /\ TaskList[t].Hi = << >>

C19_InPlaceAnyMethod ==
    /\ [](Succeeded /\ M_dense_in_place => mask_applied)
    /\ [][(/\ pc = "mask"
           /\ M # "NULL"
           /\ GB_is_packed(inp)
           /\ 10 * (total_flops - Mwork) < cvlenOf(inp) * inp.bvdim)
           => /\ M_dense_in_place'
              /\ Bflops' = Bflops
              /\ M' = M]_vars

\* C19 (amended): the above holds when the caller's AxB_method is GxB_DEFAULT
\* or GxB_AxB_SAXPY, and the method then becomes GxB_AxB_HASH; with
\* GxB_AxB_GUSTAVSON or GxB_AxB_HASH requested, M_dense_in_place stays false
\* and the method is kept.
C19_InPlaceByDefault ==
    /\ [](Succeeded /\ M_dense_in_place => mask_applied)
    /\ [][(/\ pc = "mask"
           /\ M # "NULL"
           /\ GB_is_packed(inp)
           /\ 10 * (total_flops - Mwork) < cvlenOf(inp) * inp.bvdim)
           => IF inp'.AxB_method \in {"GxB_DEFAULT", "GxB_AxB_SAXPY"}
              THEN /\ M_dense_in_place'
                   /\ AxB_method' = "GxB_AxB_HASH"
                   /\ Bflops' = Bflops
                   /\ M' = M
              ELSE /\ ~M_dense_in_place'
                   /\ AxB_method' = inp'.AxB_method]_vars

\* a product computed with its dense mask read in place
C19_Witness ==
    /\ Succeeded
    /\ M_dense_in_place
    /\ mask_applied
    /\ inp.AxB_method = "GxB_DEFAULT"
    /\ AxB_method = "GxB_AxB_HASH"

\* C20: stopping a reduction as soon as the terminal condition holds gives
\* the result of reducing every entry, for TIMES over int16_t with 16-bit
\* wraparound (terminal 0), MAX over uint8_t (terminal UINT8_MAX), boolean
\* OR and MIN over uint8_t, whose terminal values are absorbing; for the ANY
\* monoid, whose terminal condition always holds, the result of a reduction
\* of at least one entry is one of the entries.
C20_EarlyExit ==
    pc = "reduced" =>
        IF reducer.monoid = "ANY"
        THEN /\ GB_TERMINAL_CONDITION("ANY", reducer.z)
             /\ Len(reducer.Ax) > 0 =>
                   \E p \in 1 .. Len(reducer.Ax) : reducer.z = reducer.Ax[p]
        ELSE /\ reducer.z = GB_reduce_to_scalar(reducer.monoid, reducer.z0,
                                                reducer.Ax, 1, FALSE)
             /\ GB_TERMINAL_CONDITION(reducer.monoid, reducer.z) =>
                   \A a \in reducer.values :
                       GB_UPDATE(reducer.monoid, reducer.z, a) = reducer.z

\* a product of int16_t entries that wraps around to 0 before the last entry
C20_Witness ==
    /\ pc = "reduced"
    /\ reducer.monoid = "TIMES_INT16"
    /\ reducer.z0 = 1
    /\ reducer.Ax = <<256, 256, 3>>
    /\ reducer.z = 0

\* C23: the counting pass and the creation pass agree. After the task
\* creation ntasks = nfine + ncoarse entries of TaskList have been written,
\* each exactly once and none outside TaskList; the fine tasks are the ids
\* 0..nfine-1 and have vector >= 0; the coarse tasks are the ids
\* nfine..ntasks-1, have vector = -1 and team_size = 1 and lead themselves.
C23_PassesAgree ==
    pc = "alloc_hash" =>
        LET cs == CreateTasks(inp, Bflops, TargetsNow, AxB_method,
                              Coarse_initial, nfine, ntasks)
        IN  /\ ntasks = nfine + ncoarse
            /\ DOMAIN TaskList = 0 .. ntasks - 1
            /\ Len(cs.writes) = ntasks
            /\ \A id \in 0 .. ntasks - 1 :
                  Cardinality({n \in 1 .. Len(cs.writes) : cs.writes[n] = id}) = 1
            /\ ntasks_initial > 1 => (cs.nf = nfine /\ cs.nc = ntasks)
            /\ \A id \in 0 .. nfine - 1 :
                  /\ TaskList[id].vector >= 0
                  /\ TaskList[id].leader \in 0 .. nfine - 1
            /\ \A id \in nfine .. ntasks - 1 :
                  /\ TaskList[id].vector = -1
                  /\ TaskList[id].team_size = 1
                  /\ TaskList[id].leader = id

\* two teams of fine tasks and two coarse tasks, counted and then written
C23_Witness ==
    /\ pc = "alloc_hash"
    /\ nfine >= 4
    /\ ncoarse >= 2
    /\ Cardinality({TaskList[id].vector : id \in 0 .. nfine - 1}) >= 2

\* C24: the fine tasks of a team have consecutive ids from the leader on and
\* the same vector j, hsize, leader and team_size; their ranges start..end
\* over the positions of the entries of B(:,j) follow one another without
\* gap or overlap from Bp [j] to Bp [j+1]-1, so every entry of B(:,j) is in
\* the range of exactly one member.
C24_TeamCoversColumn ==
    "tasks" \in started =>
        /\ \A t \in FineIds : TaskList[t].leader \in FineLeaders
        /\ \A l \in FineLeaders :
              LET j == TaskList[l].vector
                  size == TaskList[l].team_size
                  team == {t \in DOMAIN TaskList : TaskList[t].leader = l}
              IN  /\ size >= 1
                  /\ team = l .. l + size - 1
                  /\ \A t \in team :
                        /\ TaskList[t].vector = j
                        /\ TaskList[t].hsize = TaskList[l].hsize
                        /\ TaskList[t].team_size = size
                        /\ TaskList[t].start <= TaskList[t].end + 1
                        /\ t < l + size - 1 =>
                              TaskList[t + 1].start = TaskList[t].end + 1
                  /\ TaskList[l].start = BpOf(inp, j)
                  /\ TaskList[l + size - 1].end = BpOf(inp, j + 1) - 1
                  /\ \A pB \in BpOf(inp, j) .. BpOf(inp, j + 1) - 1 :
                        Cardinality({t \in team : TaskList[t].start <= pB
                                                  /\ pB <= TaskList[t].end}) = 1

\* a team in which two members each have an entry of B(:,j)
C24_Witness ==
    /\ pc = "alloc_hash"
    /\ \E l \in FineLeaders :
          /\ TaskList[l].team_size >= 2
          /\ Cardinality({t \in FineIds : /\ TaskList[t].leader = l
                                          /\ TaskList[t].start <= TaskList[t].end})
                 >= 2

\* C25 (as stated): for every team of fine tasks the flop counts that slice
\* B(:,j) are defined for every slot: the flops of the tasks of the team add
\* up to the sum, over the entries B(k,j) that are present, of the number
\* of entries of A(:,k), in every format of B, bitmap with absent slots
\* included.
C25_FlopsDefined ==
    pc = "sliced" =>
        SumSeq(slicer.flops) =
            SumSeq([k \in 1 .. MaxSlots |->
                       IF slicer.Bb[k - 1] = 1 THEN slicer.aknz[k - 1] ELSE 0])

\* a bitmap B(:,j) with two entries and an absent slot between them: the
\* value that GB_MALLOC left in Bflops2 for that slot is counted as flops
C25_Witness ==
    /\ pc = "sliced"
    /\ slicer.format = "bitmap"
    /\ slicer.Bb = [k \in 0 .. MaxSlots - 1 |-> IF k = 1 THEN 0 ELSE 1]
    /\ \A k \in 0 .. MaxSlots - 1 : slicer.aknz[k] = 3
    /\ SumSeq(slicer.flops) = 3 * (MaxSlots - 1) + 7

\* C26 (as stated): after the mask decision, whichever branch it took,
\* Bflops is a cumulative sum that starts at Bflops [0] = 0, and total_flops
\* is the sum over the vectors k of Bflops [k+1] - Bflops [k].
C26_CumulativeSum ==
    pc = "threads" =>
        /\ Len(Bflops) = bnvecOf(inp) + 1
        /\ At(Bflops, 0) = 0
        /\ \A k \in 0 .. bnvecOf(inp) - 1 : At(Bflops, k) <= At(Bflops, k + 1)
        /\ total_flops =
              SumSeq([k \in 1 .. bnvecOf(inp) |-> Bflops[k + 1] - Bflops[k]])

\* a dense mask that is scattered (Gustavson): Bflops [0] is cvlen and
\* total_flops is cvlen more than the sum of the bounds of the vectors
C26_Witness ==
    /\ pc = "threads"
    /\ GB_is_packed(inp)
    /\ M # "NULL"
    /\ ~M_dense_in_place
    /\ inp.AxB_method = "GxB_DEFAULT"
    /\ AxB_method = "GxB_AxB_GUSTAVSON"
    /\ At(Bflops, 0) = cvlenOf(inp)
    /\ total_flops = cvlenOf(inp)
          + SumSeq([k \in 1 .. bnvecOf(inp) |-> Bflops[k + 1] - Bflops[k]])

\* the end of the region that starts at offset off of a buffer of total
\* units: the next pointer handed out of the buffer, or the end of the buffer
RegionEnd(ptrs, total, off) ==
    LET above == {p \in ptrs : p > off} \cup {total}
    IN  CHOOSE e \in above : \A p \in above : e <= p

\* C27: once the workspace is split, the regions of distinct leaders are
\* pairwise disjoint and inside the one buffer of their kind: the Hf
\* pointers of the leaders are distinct offsets of Hf_all, and from each to
\* the next pointer (or the end of the buffer) there are hsize 64-bit slots
\* and the padding, hsize bytes and padding for a fine Gustavson team; the
\* same for the Hi of the coarse hash tasks in Hi_all, and for the Hx of
\* every leader in Hx_all (hsize * csize bytes and padding) unless the
\* semiring is ANY_PAIR; tasks of different teams never hold the same Hf or
\* Hx, and the members of a team hold their leader's.
C27_RegionsDisjoint ==
    pc = "symbolic" =>
        LET lead == {t \in DOMAIN TaskList : TaskList[t].leader = t}
            hiUsers == {t \in lead : TaskList[t].vector < 0 /\ ~GusTask(t)}
            fine_gus(t) == TaskList[t].vector >= 0 /\ GusTask(t)
            Offs(S, f) == {TaskList[t][f][1] : t \in S}
            Room(S, f, t) ==
                RegionEnd(Offs(S, f), Htotal[f], TaskList[t][f][1])
                    - TaskList[t][f][1]
            Inside(S, f) ==
                /\ \A t \in S : /\ TaskList[t][f] # << >>
                                 /\ TaskList[t][f][1] >= 0
                                 /\ TaskList[t][f][1] < Htotal[f]
                /\ \A t, u \in S : t # u => TaskList[t][f] # TaskList[u][f]
        IN  /\ Inside(lead, "Hf")
            /\ \A t \in lead :
                  IF fine_gus(t)
                  THEN sizeof_int64 * Room(lead, "Hf", t)
                           >= TaskList[t].hsize + hi_pad
                  ELSE Room(lead, "Hf", t) >= TaskList[t].hsize + hi_pad
            /\ Inside(hiUsers, "Hi")
            /\ \A t \in hiUsers :
                  Room(hiUsers, "Hi", t) >= TaskList[t].hsize + hi_pad
            /\ IF is_any_pair_semiring(inp)
               THEN \A t \in DOMAIN TaskList : TaskList[t].Hx = << >>
               ELSE /\ Inside(lead, "Hx")
                    /\ \A t \in lead :
                          Room(lead, "Hx", t)
                              >= TaskList[t].hsize * csizeOf(inp) + hx_pad
            /\ \A t, u \in DOMAIN TaskList :
                  IF TaskList[t].leader = TaskList[u].leader
                  THEN /\ TaskList[t].Hf = TaskList[u].Hf
                       /\ TaskList[t].Hx = TaskList[u].Hx
                  ELSE /\ TaskList[t].Hf # TaskList[u].Hf
                       /\ TaskList[t].Hx # << >>
                              => TaskList[t].Hx # TaskList[u].Hx

\* a split workspace with a fine Gustavson team and a coarse hash task
\* after it, with Hx
C27_Witness ==
    /\ pc = "symbolic"
    /\ ~is_any_pair_semiring(inp)
    /\ \E l \in FineLeaders : GusTask(l) /\ TaskList[l].team_size >= 2
    /\ \E t \in CoarseIds : ~GusTask(t) /\ TaskList[t].Hi # << >>

\* the name and the definition of the object are set
NameSet == FirstChar(object.name) # "["
DefnSet == object.defn # << >>

\* C22: the hash of a user-defined object is computed only once both its
\* name and its definition are set: while one of them is not set the hash is
\* UINT64_MAX, a call changes the hash only if both are set after it, and
\* once both are set (in either order) the hash is GB_jitifyer_hash of the
\* name.
C22_HashOnceBoth ==
    /\ [](object.user_defined =>
             /\ ~(NameSet /\ DefnSet) => object.hash = UINT64_MAX
             /\ (NameSet /\ DefnSet) =>
                   object.hash = GB_jitifyer_hash(object.name, object.name_len,
                                                  object.jitable))
    /\ [][object'.hash # object.hash =>
             /\ object'.info = "GrB_SUCCESS"
             /\ FirstChar(object'.name) # "["
             /\ object'.defn # << >>
             /\ ~(NameSet /\ DefnSet)]_vars

\* a jitable object whose definition was set first and whose name second
C22_Witness ==
    /\ object.user_defined /\ object.jitable
    /\ NameSet /\ DefnSet
    /\ object.field = "GrB_NAME" /\ object.info = "GrB_SUCCESS"
    /\ object.hash = <<"XXH3">> \o object.name
    /\ object.hash # UINT64_MAX

\* what a call was handed, read off the object after it
InvalidName(value) ==
    FirstChar(value) = "[" \/ Len(value) = 0 \/ Len(value) >= GxB_MAX_NAME_LEN
KeepsStrings ==
    /\ object'.name = object.name
    /\ object'.name_len = object.name_len
    /\ object'.defn = object.defn
    /\ object'.hash = object.hash

\* C30 (as stated): every call on a built-in object returns GrB_ALREADY_SET;
\* on a user-defined object the first valid GrB_NAME set and the first
\* GxB_DEFINITION set succeed and a later set of the same field returns
\* GrB_ALREADY_SET; an invalid name returns GrB_INVALID_VALUE, as does any
\* other field; a call that does not succeed leaves name, definition and
\* hash unchanged.
C30_SetOnce ==
    [][/\ ~object.user_defined => object'.info = "GrB_ALREADY_SET"
       /\ object.user_defined =>
            /\ (object'.field = "GrB_NAME" /\ NameSet)
                  => object'.info = "GrB_ALREADY_SET"
            /\ (object'.field = "GxB_DEFINITION" /\ DefnSet)
                  => object'.info = "GrB_ALREADY_SET"
            /\ (object'.field = "GrB_NAME" /\ InvalidName(object'.value))
                  => object'.info = "GrB_INVALID_VALUE"
            /\ object'.field \notin {"GrB_NAME", "GxB_DEFINITION"}
                  => object'.info = "GrB_INVALID_VALUE"
            /\ (object'.field = "GrB_NAME" /\ ~NameSet
                    /\ ~InvalidName(object'.value))
                  => /\ object'.info = "GrB_SUCCESS"
                     /\ object'.name = object'.value
            /\ (object'.field = "GxB_DEFINITION" /\ ~DefnSet)
                  => /\ object'.info = "GrB_SUCCESS"
                     /\ object'.defn = <<object'.value>>
       /\ object'.info # "GrB_SUCCESS" => KeepsStrings]_vars

\* C30 (amended): the same, with the order of the checks and the failure of
\* the allocation: a name that is already set is reported before the new
\* name is validated, so an invalid name returns GrB_INVALID_VALUE only
\* while the name is not set; the first GxB_DEFINITION set succeeds or
\* returns GrB_OUT_OF_MEMORY; a name or a definition that is set never
\* changes again.
C30_SetOnceInOrder ==
    [][/\ ~object.user_defined => object'.info = "GrB_ALREADY_SET"
       /\ (object.user_defined /\ object'.field = "GrB_NAME") =>
            IF NameSet THEN object'.info = "GrB_ALREADY_SET"
            ELSE IF InvalidName(object'.value)
            THEN object'.info = "GrB_INVALID_VALUE"
            ELSE /\ object'.info = "GrB_SUCCESS"
                 /\ object'.name = object'.value
                 /\ object'.name_len = Len(object'.value)
                 /\ object'.defn = object.defn
       /\ (object.user_defined /\ object'.field = "GxB_DEFINITION") =>
            IF DefnSet THEN object'.info = "GrB_ALREADY_SET"
            ELSE \/ /\ object'.info = "GrB_SUCCESS"
                    /\ object'.defn = <<object'.value>>
                    /\ object'.name = object.name
                 \/ object'.info = "GrB_OUT_OF_MEMORY"
       /\ (object.user_defined
              /\ object'.field \notin {"GrB_NAME", "GxB_DEFINITION"})
            => object'.info = "GrB_INVALID_VALUE"
       /\ object'.info # "GrB_SUCCESS" => KeepsStrings
       /\ NameSet => object'.name = object.name
       /\ DefnSet => object'.defn = object.defn]_vars

\* a user-defined object whose name is set is handed a name that starts with
\* '[': the call returns GrB_ALREADY_SET and the name stays
C30_Witness ==
    /\ object.user_defined
    /\ NameSet /\ DefnSet
    /\ object.field = "GrB_NAME"
    /\ FirstChar(object.value) = "["
    /\ object.info = "GrB_ALREADY_SET"
    /\ object.name # object.value

\* C28: on return, where the mask is true C(i,j) is as it was when C_replace
\* is false and is deleted when C_replace is true; where the mask is false
\* C(i,j) is A(i,j) (or the scalar) when A has an entry and is deleted when it
\* has none; the format of A does not enter.
C28_AssignNotM ==
    pc = "notM_done" =>
        \A p \in Cells :
            IF MijOf(bassign, p)
            THEN IF bassign.C_replace THEN bassign.Cb[p] = 0
                 ELSE /\ bassign.Cb[p] = bassign.Cb0[p]
                      /\ bassign.Cx[p] = 7
            ELSE IF bassign.Akind = "scalar"
                 THEN bassign.Cb[p] = 1 /\ bassign.Cx[p] = bassign.scalar
                 ELSE IF bassign.Akind = "full" \/ bassign.Ab[p] = 1
                 THEN bassign.Cb[p] = 1 /\ bassign.Cx[p] = AxOf(p)
                 ELSE bassign.Cb[p] = 0

\* a sparse A without C_replace: one entry of C under the mask is kept, and
\* one outside the mask, where A has no entry, is deleted
C28_Witness ==
    /\ pc = "notM_done"
    /\ bassign.Akind = "sparse"
    /\ ~bassign.C_replace
    /\ \E p \in Cells : MijOf(bassign, p) /\ bassign.Cb0[p] = 1
                          /\ bassign.Cb[p] = 1
    /\ \E p \in Cells : ~MijOf(bassign, p) /\ bassign.Cb0[p] = 1
                          /\ bassign.Ab[p] = 0 /\ bassign.Cb[p] = 0

\* C29: on return every byte of the bitmap is 0 or 1 and C->nvals is the
\* number of bytes that are 1, whatever C_replace, the kind of input and the
\* format of A.
C29_BitmapValid ==
    pc = "notM_done" =>
        /\ \A p \in Cells : bassign.Cb[p] \in {0, 1}
        /\ bassign.nvals = Cardinality({p \in Cells : bassign.Cb[p] = 1})

\* a sparse A with C_replace, after bytes 3 and 4 were in the bitmap: an entry
\* under the mask was deleted and one was assigned from A
C29_Witness ==
    /\ pc = "notM_done"
    /\ bassign.Akind = "sparse"
    /\ bassign.C_replace
    /\ \E p \in Cells : MijOf(bassign, p) /\ bassign.Cb0[p] = 1
    /\ \E p \in Cells : ~MijOf(bassign, p) /\ bassign.Ab[p] = 1
                          /\ bassign.Cb0[p] = 0 /\ bassign.Cb[p] = 1
    /\ bassign.nvals = 1

====
